---- MODULE Spec2Model ----
(***************************************************************************)
(* Planning and templating core of mass_audio_transcoder.py:               *)
(* clean_path, expand_template, the tag-backed variable resolver,          *)
(* generate_target_path and prepare_work_units.                            *)
(*                                                                         *)
(* Python strings are modelled as sequences of one-character strings, so   *)
(* that the regular-expression rewrites, splits and joins of the code are  *)
(* computed character by character.                                        *)
(***************************************************************************)
EXTENDS Integers, Sequences, FiniteSets, TLC

VARIABLES
    sources, overwritemode, fs,          \* the arguments and the file system of a planning pass
    work_units, targetpaths, pc,         \* prepare_work_units: its locals and its place
    c_path, c_result, c_pc,              \* one call of clean_path
    t_template, t_allow, t_result, t_pc, \* one call of expand_template
    g_source, g_tags, g_template, g_result, g_pc, \* one call of generate_target_path
    r_source, r_tags, r_variable, r_result, r_pc, \* one call of tag_variable_resolver(source)(var)
    p_filename, p_lines, p_cwd,          \* a playlist file, its lines, the current directory
    p_result, p_sources, p_pc,           \* get_audiofile_paths_from_playlist and the sources made of it
    d_tree, d_input, d_result, d_pc,     \* a directory tree as listed, one call of get_audiofile_paths
    n_pass, n_first, n_fs,               \* which call of prepare_work_units runs, what the first returned, its files
    w_invokedir, w_start, w_access,      \* get_audiofile_paths_from_playlist step by step: invokedir, the directory at the call, what the system refuses
    w_paths, w_exc                       \* its local paths and the exception on its way out

cleanVars == <<c_path, c_result, c_pc>>
templateVars == <<t_template, t_allow, t_result, t_pc>>
targetVars == <<g_source, g_tags, g_template, g_result, g_pc>>
plannerVars == <<sources, overwritemode, fs, work_units, targetpaths, pc>>
resolverVars == <<r_source, r_tags, r_variable, r_result, r_pc>>
playlistVars == <<p_filename, p_lines, p_cwd, p_result, p_sources, p_pc>>
scanVars == <<d_tree, d_input, d_result, d_pc>>
replanVars == <<n_pass, n_first, n_fs>>
cwdVars == <<w_invokedir, w_start, w_access, w_paths, w_exc>>
vars == <<plannerVars, cleanVars, templateVars, targetVars, resolverVars, playlistVars, scanVars, replanVars, cwdVars>>

\* The variables of the functions a specification does not call.
exceptPlanner == <<cleanVars, templateVars, targetVars, resolverVars, playlistVars, scanVars, replanVars, cwdVars>>
exceptClean == <<plannerVars, templateVars, targetVars, resolverVars, playlistVars, scanVars, replanVars, cwdVars>>
exceptTemplate == <<plannerVars, cleanVars, targetVars, resolverVars, playlistVars, scanVars, replanVars, cwdVars>>
exceptTarget == <<plannerVars, cleanVars, templateVars, resolverVars, playlistVars, scanVars, replanVars, cwdVars>>
exceptResolver == <<plannerVars, cleanVars, templateVars, targetVars, playlistVars, scanVars, replanVars, cwdVars>>
exceptPlaylist == <<plannerVars, cleanVars, templateVars, targetVars, resolverVars, scanVars, replanVars, cwdVars>>
exceptScan == <<plannerVars, cleanVars, templateVars, targetVars, resolverVars, playlistVars, replanVars, cwdVars>>
exceptCwd == <<plannerVars, cleanVars, templateVars, targetVars, resolverVars, scanVars, replanVars>>

(***************************************************************************)
(* Bounds of the model.                                                    *)
(***************************************************************************)
MaxPathLen == 6
MaxSources == 3
MaxMtime == 3
SourceMtime == 2
MaxTemplateLen == 4
MaxSegments == 4
MaxLines == 3

(***************************************************************************)
(* Strings.                                                                *)
(***************************************************************************)
\* The empty string ''.
Empty == <<>>

\* Python's None: a value no string of the model is equal to.
None == <<"None">>

\* All strings over alphabet A of length at most n.
StringsUpTo(A, n) == UNION {[1..k -> A] : k \in 0..n}

\* The subsequence of s at the indices in K, in order.
KeepIdx(s, K) ==
    LET F[i \in 0..Len(s)] ==
            IF i = 0 THEN <<>>
            ELSE IF i \in K THEN Append(F[i-1], s[i]) ELSE F[i-1]
    IN F[Len(s)]

\* s[a..b] are all characters of S (true of an empty range).
AllIn(s, a, b, S) == \A k \in a..b : s[k] \in S

\* str.startswith / str.endswith
StartsWith(s, p) == Len(s) >= Len(p) /\ SubSeq(s, 1, Len(p)) = p
EndsWith(s, p) == Len(s) >= Len(p) /\ SubSeq(s, Len(s) - Len(p) + 1, Len(s)) = p

(***************************************************************************)
(* clean_path: PATH_CLEANING_PATTERNS applied in order by re.sub.  Each    *)
(* rule is stated by the set of indices its leftmost, non-overlapping,     *)
(* greedy matches delete (and, for rules 2 and 7, the character they       *)
(* write).                                                                 *)
(***************************************************************************)
\* The backslash, the double quote, the backtick and the double acute accent
\* are written by name: each name stands for that one character.
IllegalChars == {"?", "*", ":", ";", "<", ">", "|", "BACKSLASH"}
QuoteChars == {"DQUOTE", "BACKTICK", "DACUTE"}
Whitespace == {" ", "\t"}
DotOrSpace == {".", " "}
SegmentLimit == 200

\* the illegal characters -> nothing
StripIllegal(s) == SelectSeq(s, LAMBDA c : c \notin IllegalChars)

\* the three quote characters -> apostrophe
NormalizeQuotes(s) == [i \in 1..Len(s) |-> IF s[i] \in QuoteChars THEN "'" ELSE s[i]]

\* r'^[. ]+' -> ''
StripLeading(s) ==
    KeepIdx(s, {i \in 1..Len(s) : ~AllIn(s, 1, i, DotOrSpace)})

\* r'[. ]+$' -> ''
StripTrailing(s) ==
    KeepIdx(s, {i \in 1..Len(s) : ~AllIn(s, i, Len(s), DotOrSpace)})

\* r'[.]+/' -> '/' : a run of dots ending right before a separator goes.
DotsBeforeSep(s) ==
    KeepIdx(s, {i \in 1..Len(s) :
        ~(\E j \in (i+1)..Len(s) : s[j] = "/" /\ AllIn(s, i, j-1, {"."}))})

\* r'/[.]+' -> '/' : a run of dots starting right after a separator goes.
DotsAfterSep(s) ==
    KeepIdx(s, {i \in 1..Len(s) :
        ~(\E j \in 1..(i-1) : s[j] = "/" /\ AllIn(s, j+1, i, {"."}))})

\* r'\s{2,}' -> ' ' : a run of two or more whitespace becomes one space.
CollapseWhitespace(s) ==
    LET inRun(i) == s[i] \in Whitespace
        first(i) == inRun(i) /\ (i = 1 \/ ~inRun(i-1))
        t == [i \in 1..Len(s) |->
                IF first(i) /\ i < Len(s) /\ inRun(i+1) THEN " " ELSE s[i]]
    IN KeepIdx(t, {i \in 1..Len(s) : ~(inRun(i) /\ i > 1 /\ inRun(i-1))})

\* r'\s*/\s*' -> '/' : whitespace runs touching a separator go.
TrimAroundSep(s) ==
    KeepIdx(s, {i \in 1..Len(s) :
        ~(s[i] \in Whitespace /\
          \/ \E j \in (i+1)..Len(s) : s[j] = "/" /\ AllIn(s, i, j-1, Whitespace)
          \/ \E j \in 1..(i-1) : s[j] = "/" /\ AllIn(s, j+1, i, Whitespace))})

\* r'/{2,}' -> '/'
CollapseSeps(s) ==
    KeepIdx(s, {i \in 1..Len(s) : ~(s[i] = "/" /\ i > 1 /\ s[i-1] = "/")})

\* r'([^/]{200,})' -> m.group(1)[:200] : a segment keeps its first 200 characters.
TruncateSegments(s) ==
    KeepIdx(s, {i \in 1..Len(s) :
        ~(i > SegmentLimit /\ \A k \in (i - SegmentLimit)..i : s[k] # "/")})

clean_path(path) ==
    TruncateSegments(CollapseSeps(TrimAroundSep(CollapseWhitespace(
        DotsAfterSep(DotsBeforeSep(StripTrailing(StripLeading(
            NormalizeQuotes(StripIllegal(path))))))))))

(***************************************************************************)
(* Exceptions, and the parts of a placeholder.                             *)
(***************************************************************************)
\* The outcome of a call that raised TemplateError.
TemplateError == <<"TemplateError">>

\* The outcome of a call that raised TypeError.
TypeError == <<"TypeError">>

\* A call that raises yields the exception's marker, which every caller
\* passes on.
Errors == {TemplateError, TypeError}

\* maxsplit of m.group(1).split('+', 2)
MaxSplit == 2

\* str.split(sep, maxsplit): the list of parts
RECURSIVE Split(_, _, _)
Split(s, sep, maxsplit) ==
    IF maxsplit = 0 \/ ~(\E i \in 1..Len(s) : s[i] = sep)
    THEN <<s>>
    ELSE LET i == CHOOSE k \in 1..Len(s) :
                      s[k] = sep /\ \A m \in 1..(k-1) : s[m] # sep
         IN <<SubSeq(s, 1, i-1)>> \o Split(SubSeq(s, i+1, Len(s)), sep, maxsplit - 1)

\* The parts of a placeholder's text.
PlaceholderParts(group) == Split(group, "+", MaxSplit)

\* str.replace('/', '-')
ReplaceSlash(value) == [i \in 1..Len(value) |-> IF value[i] = "/" THEN "-" ELSE value[i]]

(***************************************************************************)
(* os.path (posixpath) and str helpers.                                    *)
(***************************************************************************)
\* The index of the last c in s, or 0.
LastIndexOf(s, c) ==
    IF \E i \in 1..Len(s) : s[i] = c
    THEN CHOOSE i \in 1..Len(s) : s[i] = c /\ \A k \in (i+1)..Len(s) : s[k] # c
    ELSE 0

\* os.path.basename
Basename(p) == SubSeq(p, LastIndexOf(p, "/") + 1, Len(p))

\* str.rstrip('/')
RECURSIVE RStripSep(_)
RStripSep(s) ==
    IF s # Empty /\ s[Len(s)] = "/" THEN RStripSep(SubSeq(s, 1, Len(s) - 1)) ELSE s

\* os.path.dirname
Dirname(p) ==
    LET head == SubSeq(p, 1, LastIndexOf(p, "/"))
    IN IF head # Empty /\ ~AllIn(head, 1, Len(head), {"/"}) THEN RStripSep(head) ELSE head

\* os.path.splitext: <<root, ext>>; the extension starts at the last dot of
\* the last component, unless only dots precede it there.
Splitext(p) ==
    LET sepIndex == LastIndexOf(p, "/")
        dotIndex == LastIndexOf(p, ".")
    IN IF dotIndex > sepIndex /\ \E k \in (sepIndex+1)..(dotIndex-1) : p[k] # "."
       THEN <<SubSeq(p, 1, dotIndex - 1), SubSeq(p, dotIndex, Len(p))>>
       ELSE <<p, Empty>>

\* os.path.join of two parts
PathJoin(a, b) ==
    IF StartsWith(b, <<"/">>) THEN b
    ELSE IF a = Empty \/ EndsWith(a, <<"/">>) THEN a \o b
    ELSE a \o <<"/">> \o b

\* os.path.isabs
IsAbs(p) == StartsWith(p, <<"/">>)

\* str.lower
UpperLetters == <<"A", "B", "C", "D", "E", "F", "G", "H", "I", "J", "K", "L", "M", "N", "O", "P", "Q", "R", "S", "T", "U", "V", "W", "X", "Y", "Z">>
LowerLetters == <<"a", "b", "c", "d", "e", "f", "g", "h", "i", "j", "k", "l", "m", "n", "o", "p", "q", "r", "s", "t", "u", "v", "w", "x", "y", "z">>
LowerChar(c) ==
    IF \E i \in 1..26 : UpperLetters[i] = c
    THEN LowerLetters[CHOOSE i \in 1..26 : UpperLetters[i] = c]
    ELSE c
Lower(s) == [i \in 1..Len(s) |-> LowerChar(s[i])]

\* str.strip(): whitespace off both ends
Strip(s) ==
    KeepIdx(s, {i \in 1..Len(s) :
        ~AllIn(s, 1, i, Whitespace) /\ ~AllIn(s, i, Len(s), Whitespace)})

\* str(n) for an integer n
Digits == <<"0", "1", "2", "3", "4", "5", "6", "7", "8", "9">>
RECURSIVE NatStr(_)
NatStr(n) == IF n < 10 THEN <<Digits[n + 1]>> ELSE NatStr(n \div 10) \o <<Digits[(n % 10) + 1]>>
IntStr(n) == IF n < 0 THEN <<"-">> \o NatStr(-n) ELSE NatStr(n)

\* str.zfill(width): zeros after a leading sign
RECURSIVE Zeros(_)
Zeros(k) == IF k <= 0 THEN Empty ELSE <<"0">> \o Zeros(k - 1)
Zfill(s, width) ==
    IF s # Empty /\ s[1] \in {"+", "-"}
    THEN <<s[1]>> \o Zeros(width - Len(s)) \o Tail(s)
    ELSE Zeros(width - Len(s)) \o s

\* zeropad(n, length) of a string or a number already turned into its str()
zeropad(n, length) == Zfill(n, length)

\* int(s): <<TRUE, n>>, or <<FALSE, 0>> where int raises ValueError.  Digits
\* with an optional sign, surrounding whitespace allowed.
DigitValue(c) == (CHOOSE i \in 1..10 : Digits[i] = c) - 1
RECURSIVE DigitsValue(_)
DigitsValue(s) ==
    IF s = Empty THEN 0 ELSE 10 * DigitsValue(SubSeq(s, 1, Len(s) - 1)) + DigitValue(s[Len(s)])
IsSigned(t) == t # Empty /\ t[1] \in {"+", "-"}
Unsigned(t) == IF IsSigned(t) THEN Tail(t) ELSE t
IsNumber(body) ==
    body # Empty /\ \A i \in 1..Len(body) : \E d \in 1..10 : Digits[d] = body[i]
IntOfStripped(t) ==
    IF ~IsNumber(Unsigned(t)) THEN <<FALSE, 0>>
    ELSE <<TRUE, IF IsSigned(t) /\ t[1] = "-" THEN -DigitsValue(Unsigned(t))
                 ELSE DigitsValue(Unsigned(t))>>
IntParse(s) == IntOfStripped(Strip(s))

(***************************************************************************)
(* Tags: the easy-tag dictionary of a file, tag name -> list of values.    *)
(* NoTags is the state of a Tags object whose file could not be read.      *)
(***************************************************************************)
\* (mutagen_file is None): a value with a key no tag dictionary has.
NoTags == (<<"NoTags">> :> <<>>)

\* str.upper
UpperChar(c) ==
    IF \E i \in 1..26 : LowerLetters[i] = c
    THEN UpperLetters[CHOOSE i \in 1..26 : LowerLetters[i] = c]
    ELSE c
Upper(s) == [i \in 1..Len(s) |-> UpperChar(s[i])]

\* ','.join(values)
RECURSIVE JoinComma(_)
JoinComma(values) ==
    IF Len(values) = 1 THEN values[1]
    ELSE values[1] \o <<",">> \o JoinComma(Tail(values))

\* Tags.get(tagname)
TagsGet(tags, tagname) ==
    IF tags = NoTags \/ DOMAIN tags = {} THEN None
    ELSE LET values == IF Upper(tagname) \in DOMAIN tags THEN tags[Upper(tagname)]
                       ELSE IF tagname \in DOMAIN tags THEN tags[tagname]
                       ELSE <<>>
         IN IF Len(values) > 0 THEN JoinComma(values) ELSE None

\* Python truth of an optional string: neither None nor ''.
Truthy(v) == v # None /\ v # Empty

\* zeropad(int(val), 2) if val else None, inside try/except returning None
PadParsed(parsed) == IF parsed[1] THEN zeropad(IntStr(parsed[2]), 2) ELSE None
PaddedInt(val) == IF ~Truthy(val) THEN None ELSE PadParsed(IntParse(val))

(***************************************************************************)
(* Source, and the resolver returned by tag_variable_resolver(source).     *)
(* A Source is a record; playlist_file is None and the two playlist        *)
(* numbers are 0 (as false as None) for a file that came from no playlist. *)
(***************************************************************************)
\* Source.basename(include_ext)
SourceBasename(source, include_ext) ==
    LET bn == Basename(source.filepath)
    IN IF include_ext THEN bn ELSE Splitext(bn)[1]

\* get_normalized_extension(filename)
get_normalized_extension(filename) ==
    LET ext == Lower(Splitext(filename)[2])
    IN IF ext = Empty THEN Empty ELSE Tail(ext)

\* INPUT_AUDIOFILE_PATTERNS, each '*.ext' given by its '.ext'
INPUT_AUDIOFILE_PATTERNS ==
    <<<<".", "m", "p", "3">>, <<".", "o", "g", "g">>, <<".", "f", "l", "a", "c">>, <<".", "m", "4", "a">>, <<".", "m", "p", "c">>, <<".", "w", "a", "v">>>>

\* fnmatch.fnmatch(name, '*' + suffix): the name ends with the suffix
FnmatchStar(name, suffix) == EndsWith(name, suffix)

\* is_audio_file(filename)
is_audio_file(filename) ==
    \E k \in 1..Len(INPUT_AUDIOFILE_PATTERNS) :
        FnmatchStar(Lower(Basename(filename)), INPUT_AUDIOFILE_PATTERNS[k])

\* Source.filetype()
SourceFiletype(source) ==
    LET ext == get_normalized_extension(source.filepath)
    IN IF Len(ext) > 0 THEN ext ELSE None

\* Source.parentdir_basename()
SourceParentdirBasename(source) == Basename(Dirname(source.filepath))

\* get_playlist_name(filename)
get_playlist_name(filename) == Splitext(Basename(filename))[1]

\* resolver(var) of tag_variable_resolver(source), tags being Tags(source.filepath)
tag_variable_resolver(source, tags, variable) ==
    LET var == Lower(variable)
        get(name) == TagsGet(tags, name)
    IN CASE var \in {<<"a">>, <<"a", "r", "t", "i", "s", "t">>} -> get(<<"a", "r", "t", "i", "s", "t">>)
         [] var \in {<<"b">>, <<"a", "l", "b", "u", "m">>} -> get(<<"a", "l", "b", "u", "m">>)
         [] var \in {<<"t">>, <<"t", "i", "t", "l", "e">>} -> get(<<"t", "i", "t", "l", "e">>)
         [] var \in {<<"a", "a">>, <<"a", "l", "b", "u", "m", "a", "r", "t", "i", "s", "t">>} -> get(<<"a", "l", "b", "u", "m", "a", "r", "t", "i", "s", "t">>)
         [] var \in {<<"a", "a", "a">>, <<"a", "l", "b", "u", "m", "a", "r", "t", "i", "s", "t", "_", "o", "r", "_", "a", "r", "t", "i", "s", "t">>} ->
                IF Truthy(get(<<"a", "l", "b", "u", "m", "a", "r", "t", "i", "s", "t">>)) THEN get(<<"a", "l", "b", "u", "m", "a", "r", "t", "i", "s", "t">>)
                ELSE get(<<"a", "r", "t", "i", "s", "t">>)
         [] var \in {<<"t", "n">>, <<"t", "r", "a", "c", "k">>, <<"t", "r", "a", "c", "k", "n", "u", "m", "b", "e", "r">>} ->
                LET val == get(<<"t", "r", "a", "c", "k", "n", "u", "m", "b", "e", "r">>)
                IN PaddedInt(IF Truthy(val) /\ (\E i \in 1..Len(val) : val[i] = "/")
                             THEN Split(val, "/", -1)[1] ELSE val)
         [] var \in {<<"t", "t">>, <<"t", "r", "a", "c", "k", "t", "o", "t", "a", "l">>} ->
                LET val == get(<<"t", "r", "a", "c", "k", "t", "o", "t", "a", "l">>)
                    tn == get(<<"t", "r", "a", "c", "k", "n", "u", "m", "b", "e", "r">>)
                IN IF Truthy(val) THEN PaddedInt(val)
                   ELSE IF tn = None THEN TypeError
                   ELSE IF ~(\E i \in 1..Len(tn) : tn[i] = "/") THEN None
                   ELSE PaddedInt(Split(tn, "/", -1)[2])
         [] var \in {<<"d", "n">>, <<"d", "i", "s", "c", "n", "u", "m", "b", "e", "r">>} ->
                LET val == get(<<"d", "i", "s", "c", "n", "u", "m", "b", "e", "r">>)
                IN IF Truthy(val) THEN zeropad(val, 2) ELSE None
         [] var = <<"f", "i", "l", "e", "n", "a", "m", "e">> -> SourceBasename(source, TRUE)
         [] var = <<"f", "i", "l", "e", "n", "a", "m", "e", "_", "n", "o", "e", "x", "t">> -> SourceBasename(source, FALSE)
         [] var = <<"p", "a", "r", "e", "n", "t", "d", "i", "r", "_", "b", "a", "s", "e", "n", "a", "m", "e">> -> SourceParentdirBasename(source)
         [] var = <<"e", "x", "t">> -> SourceFiletype(source)
         [] var = <<"f", "i", "l", "e", "n", "u", "m", "b", "e", "r">> ->
                zeropad(IntStr(source.filenumber), Len(IntStr(source.totalfiles)))
         [] var = <<"t", "o", "t", "a", "l", "f", "i", "l", "e", "s">> -> IntStr(source.totalfiles)
         [] var = <<"p", "l", "a", "y", "l", "i", "s", "t", "_", "n", "a", "m", "e">> ->
                IF source.playlist_file # None
                THEN get_playlist_name(source.playlist_file) ELSE None
         [] var = <<"p", "l", "a", "y", "l", "i", "s", "t", "_", "f", "i", "l", "e", "n", "u", "m", "b", "e", "r">> ->
                IF source.playlist_filenumber # 0 /\ source.playlist_totalfiles # 0
                THEN zeropad(IntStr(source.playlist_filenumber),
                             Len(IntStr(source.playlist_totalfiles)))
                ELSE None
         [] var = <<"p", "l", "a", "y", "l", "i", "s", "t", "_", "t", "o", "t", "a", "l", "f", "i", "l", "e", "s">> ->
                IF source.playlist_totalfiles # 0
                THEN IntStr(source.playlist_totalfiles) ELSE None
         [] OTHER -> get(var)

(***************************************************************************)
(* expand_template.  A placeholder is a match of '<([^<>]+)?>': a '<', then *)
(* characters other than angle brackets, then '>'.  re.sub replaces the     *)
(* leftmost matches from left to right; an exception of the replacer ends   *)
(* the whole call.  A variable_resolver is a dict ([dict |-> d]) or the     *)
(* function returned by tag_variable_resolver(source)                       *)
(* ([source |-> s, tags |-> Tags(s.filepath)]).                             *)
(***************************************************************************)
\* variable_resolver.get(v) for a dict
DictResolve(dict, v) == IF v \in DOMAIN dict THEN dict[v] ELSE None

\* A dict as variable_resolver, and the resolver of a source.
DictResolver(dict) == [dict |-> dict]
TagResolver(source, tags) == [source |-> source, tags |-> tags]

\* expand_template.resolver(v): isinstance(variable_resolver, dict) decides
resolver(variable_resolver, v) ==
    IF "dict" \in DOMAIN variable_resolver
    THEN DictResolve(variable_resolver.dict, v)
    ELSE tag_variable_resolver(variable_resolver.source, variable_resolver.tags, v)

\* cond_prefix, var and cond_suffix of the parts of a placeholder
\* (lines 317-329)
CondPrefix(parts) == IF Len(parts) = 3 THEN parts[1] ELSE Empty
VarName(parts) == IF Len(parts) = 3 THEN parts[2] ELSE parts[1]
CondSuffix(parts) ==
    IF Len(parts) = 3 THEN parts[3] ELSE IF Len(parts) = 2 THEN parts[2] ELSE Empty

\* value = value.replace('/', '-') if value and not allow_slash_in_var_values
SlashReplaced(value, allow_slash_in_var_values) ==
    IF value # None /\ value # Empty /\ ~allow_slash_in_var_values
    THEN ReplaceSlash(value) ELSE value

\* return cond_prefix + value + cond_suffix if value is not None else ''
Substitute(cond_prefix, value, cond_suffix) ==
    IF value = None THEN Empty ELSE cond_prefix \o value \o cond_suffix

\* What replacer does with the outcome of resolver(var): an exception goes
\* on, a value is substituted.
SubstituteResolved(parts, resolved, allow_slash_in_var_values) ==
    IF resolved \in Errors THEN resolved
    ELSE Substitute(CondPrefix(parts), SlashReplaced(resolved, allow_slash_in_var_values),
                    CondSuffix(parts))

\* replacer, from the parts of the placeholder on
ReplaceParts(parts, variable_resolver, allow_slash_in_var_values) ==
    IF Len(parts) \notin {1, 2, 3} THEN TemplateError
    ELSE SubstituteResolved(parts, resolver(variable_resolver, VarName(parts)),
                            allow_slash_in_var_values)

\* replacer(m) for a match whose group 1 is `group` (Empty when the group
\* did not take part in the match).
replacer(group, variable_resolver, allow_slash_in_var_values) ==
    IF group = Empty THEN Empty
    ELSE ReplaceParts(PlaceholderParts(group), variable_resolver, allow_slash_in_var_values)

\* The index of the '>' that ends the match starting at i, or 0.
MatchEnd(t, i) ==
    IF t[i] = "<" /\ \E j \in (i+1)..Len(t) :
                         t[j] = ">" /\ \A k \in (i+1)..(j-1) : t[k] \notin {"<", ">"}
    THEN CHOOSE j \in (i+1)..Len(t) :
             t[j] = ">" /\ \A k \in (i+1)..(j-1) : t[k] \notin {"<", ">"}
    ELSE 0

\* What re.sub writes for position i, where j = MatchEnd(template, i): the
\* character itself, or the replacement of the match.
Piece(template, i, j, variable_resolver, allow_slash_in_var_values) ==
    IF j = 0 THEN <<template[i]>>
    ELSE replacer(SubSeq(template, i+1, j-1), variable_resolver, allow_slash_in_var_values)

\* Where re.sub goes on after position i.
AfterPiece(i, j) == IF j = 0 THEN i + 1 ELSE j + 1

\* The output so far and the rest of it; an exception ends the call.
Joined(head, rest) ==
    IF head \in Errors THEN head
    ELSE IF rest \in Errors THEN rest
    ELSE head \o rest

expand_template(template, variable_resolver, allow_slash_in_var_values) ==
    LET F[i \in 1..(Len(template) + 1)] ==
            IF i > Len(template) THEN Empty
            ELSE Joined(Piece(template, i, MatchEnd(template, i), variable_resolver,
                              allow_slash_in_var_values),
                        F[AfterPiece(i, MatchEnd(template, i))])
    IN F[1]

(***************************************************************************)
(* generate_target_path                                                    *)
(***************************************************************************)
\* FFMPEG_CODEC_EXT
FFMPEG_CODEC_EXT ==
    ("vorbis" :> <<"o", "g", "g">>) @@ ("mp3" :> <<"m", "p", "3">>) @@ ("aac" :> <<"m", "4", "a">>)
    @@ ("fdkaac" :> <<"m", "4", "a">>) @@ ("copy" :> <<"*">>)

\* The fallback name: clean_path(os.path.join(parentdir_basename, basename(False)))
FallbackName(source) ==
    clean_path(PathJoin(SourceParentdirBasename(source), SourceBasename(source, FALSE)))

\* Whether the expanded and cleaned template cannot be used as a name.
BadName(result) == Len(result) = 0 \/ EndsWith(result, <<"/">>) \/ IsAbs(result)

\* The extension the target gets (None when a copied source has none).
TargetExt(source) ==
    IF source.codec # "copy" THEN FFMPEG_CODEC_EXT[source.codec]
    ELSE SourceFiletype(source)

\* result += '.' + ext without the test of line 540
WithExtAlways(result, ext) == result \o <<".">> \o ext

\* result += '.' + ext unless result ends with it
WithExt(result, ext) ==
    IF ~EndsWith(result, <<".">> \o ext) THEN result \o <<".">> \o ext ELSE result

\* lines 532-545, from the cleaned and stripped result on
TargetOfCleaned(source, destdir, cleaned) ==
    IF TargetExt(source) = None THEN TypeError
    ELSE PathJoin(destdir, WithExt(IF BadName(cleaned) THEN FallbackName(source) ELSE cleaned,
                                   TargetExt(source)))

\* lines 530-545, from the expanded template on
TargetOfExpanded(source, destdir, expanded) ==
    IF expanded \in Errors THEN expanded
    ELSE TargetOfCleaned(source, destdir, Strip(clean_path(expanded)))

generate_target_path(source, tags, template, destdir) ==
    TargetOfExpanded(source, destdir,
                     expand_template(template, TagResolver(source, tags), FALSE))

(***************************************************************************)
(* prepare_work_units.  One planning pass over `sources`: the loop of      *)
(* lines 559-598, one action per statement group, pc naming the place.     *)
(***************************************************************************)
\* Status: the enum members by name.  StatusClass is the enum class object
\* itself, which is none of its members.
StatusClass == "Status"
StatusMembers ==
    {"INIT", "READY", "SKIPPED_NAME_COLLISION", "SKIPPED_TARGETPATH_EXISTS",
     "SKIPPED_TARGETPATH_NEWER", "SKIPPED_TARGETPATH_EQ_SOURCEPATH",
     "SKIPPED_GENERATE_TARGETPATH", "FAILED_ABORTED", "FAILED_FFMPEG",
     "FAILED_IO", "COMPLETED"}

OverwriteModes == {"NO_OVERWRITE", "OVERWRITE", "OVERWRITE_IF_OLDER"}

\* WorkUnit.__init__(source): the object after construction with the
\* default arguments.  The constructor stores the name Status, not its
\* parameter status.
WorkUnit(source) == [source |-> source, status |-> StatusClass, targetpath |-> None]

\* os.path.exists / os.path.getmtime on the file system fsys (path -> mtime,
\* 0 for a path that does not exist)
PathExists(fsys, path) == path \in DOMAIN fsys /\ fsys[path] > 0
GetMtime(fsys, path) == fsys[path]

\* A collision test that finds no key.
IsClaimedNever(claims, targetpath) == FALSE

\* targetpath in targetpaths
IsClaimed(claims, targetpath) == targetpath \in DOMAIN claims

\* An else branch that records nothing.
ClaimDropped(claims, targetpath, source_id) == claims

\* targetpaths[targetpath] = source; a source is named by its place in
\* `sources`, the identity of the object.
Claim(claims, targetpath, source_id) ==
    [p \in DOMAIN claims \cup {targetpath} |->
        IF p = targetpath THEN source_id ELSE claims[p]]

\* The policy with the modification times compared by > instead of >=.
OverwriteCheckStrict(mode, fsys, sourcepath, targetpath) ==
    IF mode = "NO_OVERWRITE" THEN "SKIPPED_TARGETPATH_EXISTS"
    ELSE IF mode = "OVERWRITE_IF_OLDER"
            /\ GetMtime(fsys, targetpath) > GetMtime(fsys, sourcepath)
         THEN "SKIPPED_TARGETPATH_NEWER"
    ELSE ""

\* The policy with the first test written as "is not OVERWRITE_IF_OLDER".
OverwriteCheckWrongMode(mode, fsys, sourcepath, targetpath) ==
    IF mode # "OVERWRITE_IF_OLDER" THEN "SKIPPED_TARGETPATH_EXISTS"
    ELSE IF GetMtime(fsys, targetpath) >= GetMtime(fsys, sourcepath)
         THEN "SKIPPED_TARGETPATH_NEWER"
    ELSE ""

\* The overwrite policy for a target that exists (lines 588-595): the status
\* that skips the unit, or "" when the unit goes on to READY.
OverwriteCheck(mode, fsys, sourcepath, targetpath) ==
    IF mode = "NO_OVERWRITE" THEN "SKIPPED_TARGETPATH_EXISTS"
    ELSE IF mode = "OVERWRITE_IF_OLDER"
            /\ GetMtime(fsys, targetpath) >= GetMtime(fsys, sourcepath)
         THEN "SKIPPED_TARGETPATH_NEWER"
    ELSE ""

\* The loop body with the existence check placed before the collision check.
NextCheckExistsFirst(place) ==
    CASE place = "eq" -> "exists"
      [] place = "exists" -> "collision"
      [] place = "collision" -> "ready"

\* The order of the checks in the loop body: where control goes from a check
\* that did not skip the unit.
NextCheck(place) ==
    CASE place = "eq" -> "collision"
      [] place = "collision" -> "exists"
      [] place = "exists" -> "ready"

\* work_units.insert(0, work_unit) in place of append
PrependUnit(units, source) == <<WorkUnit(source)>> \o units

\* work_unit = WorkUnit(source); work_units.append(work_unit)
AppendUnit(units, source) == Append(units, WorkUnit(source))

\* An assignment that leaves the unit's status as it was constructed.
KeepStatus(units, status) == units

\* work_unit.status = status, for the unit of the current iteration
SetStatus(units, status) ==
    [units EXCEPT ![Len(units)] = [@ EXCEPT !.status = status]]

(***************************************************************************)
(* The files of the model: two tagged files with the same tags in two      *)
(* directories, a file in the destination directory that is named as the   *)
(* default template names it, and a file whose tags cannot be read.        *)
(***************************************************************************)
DEFAULT_TEMPLATE == <<"<", "a", "l", "b", "u", "m", "a", "r", "t", "i", "s", "t", "_", "o", "r", "_", "a", "r", "t", "i", "s", "t", ">", "<", " ", "-", " ", "+", "a", "l", "b", "u", "m", "+", ">", "<", " ", "d", "i", "s", "c", " ", "+", "d", "i", "s", "c", "n", "u", "m", "b", "e", "r", "+", ">", "/", "<", "t", "r", "a", "c", "k", "+", ".", " ", ">", "<", "t", "i", "t", "l", "e", ">">>
DEFAULT_TEMPLATE_PLAYLIST == <<"<", "p", "l", "a", "y", "l", "i", "s", "t", "_", "n", "a", "m", "e", ">", "/", "<", "p", "l", "a", "y", "l", "i", "s", "t", "_", "f", "i", "l", "e", "n", "u", "m", "b", "e", "r", ">", ".", " ", "<", "t", "i", "t", "l", "e", ">", " ", "-", " ", "<", "a", "r", "t", "i", "s", "t", ">">>

DestDir == <<"/", "o">>

FileA == <<"/", "i", "/", "x", ".", "o", "g", "g">>
FileB == <<"/", "j", "/", "x", ".", "o", "g", "g">>
FileC == <<"/", "o", "/", "R", " ", "-", " ", "L", " ", "d", "i", "s", "c", " ", "0", "1", "/", "0", "3", ".", " ", "T", ".", "m", "p", "3">>
FileD == <<"/", "i", "/", "y", ".", "o", "g", "g">>
PlaylistFile == <<"/", "p", "/", "l", ".", "m", "3", "u">>

FullTags ==
    (<<"a", "r", "t", "i", "s", "t">> :> <<<<"R">>>>) @@ (<<"a", "l", "b", "u", "m">> :> <<<<"L">>>>) @@ (<<"t", "i", "t", "l", "e">> :> <<<<"T">>>>)
    @@ (<<"t", "r", "a", "c", "k", "n", "u", "m", "b", "e", "r">> :> <<<<"3", "/", "9">>>>) @@ (<<"d", "i", "s", "c", "n", "u", "m", "b", "e", "r">> :> <<<<"1">>>>)

\* Tags(filepath)
Tags(filepath) == IF filepath = FileD THEN NoTags ELSE FullTags

\* Source(filepath, transcode_spec, playlist_file, playlist_filenumber,
\* playlist_totalfiles); codec is transcode_spec.codec.
Source(filepath, codec, playlist_file, playlist_filenumber, playlist_totalfiles) ==
    [filepath |-> filepath, codec |-> codec, filenumber |-> -1, totalfiles |-> -1,
     playlist_file |-> playlist_file, playlist_filenumber |-> playlist_filenumber,
     playlist_totalfiles |-> playlist_totalfiles]

SourcePool ==
    {Source(FileA, "mp3", None, 0, 0),
     Source(FileB, "mp3", None, 0, 0),
     Source(FileC, "mp3", None, 0, 0),
     Source(FileD, "copy", None, 0, 0),
     Source(FileA, "mp3", PlaylistFile, 1, 2)}

\* The template prepare_work_units chooses for a source (line 563), called
\* with the program's default templates.
TemplateFor(source) ==
    IF source.playlist_file = None THEN DEFAULT_TEMPLATE ELSE DEFAULT_TEMPLATE_PLAYLIST

\* generate_target_path(source, template, destdir) for the sources of the
\* model, computed once per source.
TargetPaths ==
    [source \in SourcePool |->
        generate_target_path(source, Tags(source.filepath), TemplateFor(source), DestDir)]

SourceLists == UNION {[1..k -> SourcePool] : k \in 0..MaxSources}

\* The file systems of the model: the source files exist with modification
\* time SourceMtime; FileC, the one path that is also a target of the other
\* files, is absent (0) or has any modification time up to MaxMtime.
FileSystems ==
    {(FileA :> SourceMtime) @@ (FileB :> SourceMtime) @@ (FileD :> SourceMtime)
        @@ (FileC :> m) : m \in 0..MaxMtime}

\* The variables of a function that a specification does not call.
IdleClean == c_path = Empty /\ c_result = None /\ c_pc = "idle"
IdleTemplate == t_template = Empty /\ t_allow = TRUE /\ t_result = None /\ t_pc = "idle"
IdleTarget ==
    g_source = None /\ g_tags = "unreadable" /\ g_template = Empty /\ g_result = None /\ g_pc = "idle"
NoOutcome == [raised |-> FALSE, filetype |-> <<>>, paths |-> <<>>]
IdlePlaylist ==
    /\ p_filename = <<>> /\ p_lines = <<>> /\ p_cwd = <<>>
    /\ p_result = NoOutcome /\ p_sources = <<>> /\ p_pc = "idle"
IdleScan == d_tree = <<>> /\ d_input = <<>> /\ d_result = <<>> /\ d_pc = "idle"
IdleCwd ==
    w_invokedir = <<>> /\ w_start = <<>> /\ w_access = "ok" /\ w_paths = <<>> /\ w_exc = ""
IdleReplan == n_pass = 0 /\ n_first = <<>> /\ n_fs = <<>>
IdleResolver ==
    r_source = None /\ r_tags = "unreadable" /\ r_variable = Empty /\ r_result = None /\ r_pc = "idle"

(***************************************************************************)
(* Specification Spec: prepare_work_units(sources, DestDir,                *)
(* DEFAULT_TEMPLATE, DEFAULT_TEMPLATE_PLAYLIST, overwritemode) on every    *)
(* list of up to MaxSources sources, every overwrite mode and every file   *)
(* system of the model in which the sources exist.                         *)
(***************************************************************************)
IdlePlanner ==
    /\ sources = <<>>
    /\ overwritemode = "NO_OVERWRITE"
    /\ fs = <<>>
    /\ work_units = <<>>
    /\ targetpaths = <<>>
    /\ pc = "idle"

Init ==
    /\ sources \in SourceLists
    /\ overwritemode \in OverwriteModes
    /\ fs \in FileSystems
    /\ \A i \in 1..Len(sources) : PathExists(fs, sources[i].filepath)
    /\ work_units = <<>>
    /\ targetpaths = <<>>
    /\ pc = "loop"
    /\ IdleClean
    /\ IdleTemplate
    /\ IdleTarget
    /\ IdleResolver
    /\ IdlePlaylist
    /\ IdleScan
    /\ IdleReplan
    /\ IdleCwd

\* for source in sources: work_unit = WorkUnit(source); work_units.append(work_unit)
LoopNext ==
    /\ pc = "loop"
    /\ Len(work_units) < Len(sources)
    /\ work_units' = AppendUnit(work_units, sources[Len(work_units) + 1])
    /\ pc' = "generate"
    /\ UNCHANGED <<sources, overwritemode, fs, targetpaths, exceptPlanner>>

\* lines 563-569: choose the template, generate the target path
GenerateTarget ==
    /\ pc = "generate"
    /\ LET source == sources[Len(work_units)]
           targetpath == TargetPaths[source]
       IN IF targetpath \in Errors
          THEN pc' = "raised" /\ UNCHANGED work_units
          ELSE IF targetpath = Empty
          THEN /\ work_units' = SetStatus(work_units, "SKIPPED_GENERATE_TARGETPATH")
               /\ pc' = "loop"
          ELSE /\ work_units' = [work_units EXCEPT ![Len(work_units)] =
                                    [@ EXCEPT !.targetpath = targetpath]]
               /\ pc' = "eq"
    /\ UNCHANGED <<sources, overwritemode, fs, targetpaths, exceptPlanner>>

\* lines 571-574
CheckEqSource ==
    /\ pc = "eq"
    /\ LET unit == work_units[Len(work_units)]
       IN IF unit.source.filepath = unit.targetpath
          THEN /\ work_units' = SetStatus(work_units, "SKIPPED_TARGETPATH_EQ_SOURCEPATH")
               /\ pc' = "loop"
          ELSE /\ pc' = NextCheck("eq")
               /\ UNCHANGED work_units
    /\ UNCHANGED <<sources, overwritemode, fs, targetpaths, exceptPlanner>>

\* lines 576-585
CheckCollision ==
    /\ pc = "collision"
    /\ LET unit == work_units[Len(work_units)]
       IN IF IsClaimed(targetpaths, unit.targetpath)
          THEN /\ work_units' = SetStatus(work_units, "SKIPPED_NAME_COLLISION")
               /\ pc' = "loop"
               /\ UNCHANGED targetpaths
          ELSE /\ targetpaths' = Claim(targetpaths, unit.targetpath, Len(work_units))
               /\ pc' = NextCheck("collision")
               /\ UNCHANGED work_units
    /\ UNCHANGED <<sources, overwritemode, fs, exceptPlanner>>

\* lines 587-595
CheckExists ==
    /\ pc = "exists"
    /\ LET unit == work_units[Len(work_units)]
           skip == IF PathExists(fs, unit.targetpath)
                   THEN OverwriteCheck(overwritemode, fs, unit.source.filepath,
                                       unit.targetpath)
                   ELSE ""
       IN IF skip # ""
          THEN /\ work_units' = SetStatus(work_units, skip)
               /\ pc' = "loop"
          ELSE /\ pc' = NextCheck("exists")
               /\ UNCHANGED work_units
    /\ UNCHANGED <<sources, overwritemode, fs, targetpaths, exceptPlanner>>

\* line 598
MarkReady ==
    /\ pc = "ready"
    /\ work_units' = SetStatus(work_units, "READY")
    /\ pc' = "loop"
    /\ UNCHANGED <<sources, overwritemode, fs, targetpaths, exceptPlanner>>

\* line 600: return work_units
Return ==
    /\ pc = "loop"
    /\ Len(work_units) = Len(sources)
    /\ pc' = "done"
    /\ UNCHANGED <<sources, overwritemode, fs, work_units, targetpaths, exceptPlanner>>

Next ==
    \/ LoopNext
    \/ GenerateTarget
    \/ CheckEqSource
    \/ CheckCollision
    \/ CheckExists
    \/ MarkReady
    \/ Return

Spec == Init /\ [][Next]_vars

(***************************************************************************)
(* Specification SpecTemplate: expand_template with a dict resolver that    *)
(* knows a variable with a value holding a separator (a), a variable whose  *)
(* value is the empty string (e) and no other name.  The templates are all  *)
(* short strings over the grammar's characters and these names, and all     *)
(* single placeholders of up to MaxSegments segments, alone or between      *)
(* literal text.                                                            *)
(***************************************************************************)
TemplateDict == (<<"a">> :> <<"x", "/", "y">>) @@ (<<"e">> :> Empty)

TemplateAlphabet == {"<", ">", "+", "a", "e", "n"}
SegmentValues == {Empty, <<"a">>, <<"e">>, <<"n">>, <<"p", " ">>}

RECURSIVE JoinPlus(_)
JoinPlus(segs) ==
    IF Len(segs) = 1 THEN segs[1]
    ELSE segs[1] \o <<"+">> \o JoinPlus(Tail(segs))

Placeholder(segs) == <<"<">> \o JoinPlus(segs) \o <<">">>

SegmentLists == UNION {[1..k -> SegmentValues] : k \in 1..MaxSegments}

TemplateInputs ==
    StringsUpTo(TemplateAlphabet, MaxTemplateLen)
    \cup {Placeholder(segs) : segs \in SegmentLists}
    \cup {<<"p">> \o Placeholder(segs) \o <<"p">> : segs \in SegmentLists}

(***************************************************************************)
(* Specification SpecClean: clean_path applied to every short string over  *)
(* an alphabet that has a letter, the dot, the space, the separator and    *)
(* one character of the illegal class.                                     *)
(***************************************************************************)
PathAlphabet == {"a", ".", " ", "/", "?"}

InitClean ==
    /\ c_path \in StringsUpTo(PathAlphabet, MaxPathLen)
    /\ c_result = None
    /\ c_pc = "call"
    /\ IdleTemplate
    /\ IdlePlanner
    /\ IdleTarget
    /\ IdleResolver
    /\ IdlePlaylist
    /\ IdleScan
    /\ IdleReplan
    /\ IdleCwd

CallCleanPath ==
    /\ c_pc = "call"
    /\ c_result' = clean_path(c_path)
    /\ c_pc' = "done"
    /\ UNCHANGED <<c_path, exceptClean>>

NextClean == CallCleanPath

SpecClean == InitClean /\ [][NextClean]_vars

InitTemplate ==
    /\ t_template \in TemplateInputs
    /\ t_allow \in BOOLEAN
    /\ t_result = None
    /\ t_pc = "call"
    /\ IdleClean
    /\ IdlePlanner
    /\ IdleTarget
    /\ IdleResolver
    /\ IdlePlaylist
    /\ IdleScan
    /\ IdleReplan
    /\ IdleCwd

CallExpandTemplate ==
    /\ t_pc = "call"
    /\ t_result' = expand_template(t_template, DictResolver(TemplateDict), t_allow)
    /\ t_pc' = "done"
    /\ UNCHANGED <<t_template, t_allow, exceptTemplate>>

NextTemplate == CallExpandTemplate

SpecTemplate == InitTemplate /\ [][NextTemplate]_vars

(***************************************************************************)
(* Playlists: is_pls_playlist, is_m3u_playlist, extract_pls_paths,         *)
(* extract_m3u_paths and get_audiofile_paths_from_playlist.  A playlist    *)
(* file is its name and its lines, each line without its line ending (a    *)
(* blank line is the empty string: both regular expressions leave it out,  *)
(* the M3U one by the strip() test of the line ending it matched).         *)
(***************************************************************************)
\* 'sep'.join(parts)
RECURSIVE Join(_, _)
Join(parts, sep) ==
    IF parts = <<>> THEN Empty
    ELSE IF Len(parts) = 1 THEN parts[1]
    ELSE parts[1] \o sep \o Join(Tail(parts), sep)

\* posixpath.normpath: the loop over the components (new_comps is comps so far)
NormStep(new_comps, comp, initial_slashes) ==
    IF comp \in {Empty, <<".">>} THEN new_comps
    ELSE IF comp # <<".", ".">> \/ (initial_slashes = 0 /\ new_comps = <<>>)
            \/ (new_comps # <<>> /\ new_comps[Len(new_comps)] = <<".", ".">>)
         THEN Append(new_comps, comp)
    ELSE IF new_comps # <<>> THEN SubSeq(new_comps, 1, Len(new_comps) - 1)
    ELSE new_comps

NormComps(comps, initial_slashes) ==
    LET F[i \in 0..Len(comps)] ==
            IF i = 0 THEN <<>> ELSE NormStep(F[i-1], comps[i], initial_slashes)
    IN F[Len(comps)]

\* posixpath.normpath: the number of leading slashes kept (0, 1 or 2)
InitialSlashes(path) ==
    IF ~StartsWith(path, <<"/">>) THEN 0
    ELSE IF StartsWith(path, <<"/", "/">>) /\ ~StartsWith(path, <<"/", "/", "/">>) THEN 2
    ELSE 1

OrDot(path) == IF path = Empty THEN <<".">> ELSE path

\* posixpath.normpath
Normpath(path) ==
    OrDot(SubSeq(<<"/", "/">>, 1, InitialSlashes(path))
          \o Join(NormComps(Split(path, "/", -1), InitialSlashes(path)), <<"/">>))

\* os.path.abspath(path) with current directory cwd
Abspath(cwd, path) == Normpath(IF IsAbs(path) THEN path ELSE PathJoin(cwd, path))

\* urllib.parse.unquote for the escapes of the model's lines: %20, %2F and
\* %25 are decoded, a percent sign before anything else stays.
PercentCodes == (<<"2", "0">> :> " ") @@ (<<"2", "F">> :> "/") @@ (<<"2", "5">> :> "%")

RECURSIVE unquote(_)
unquote(string) ==
    IF string = Empty THEN Empty
    ELSE IF string[1] = "%" /\ Len(string) >= 3 /\ SubSeq(string, 2, 3) \in DOMAIN PercentCodes
         THEN <<PercentCodes[SubSeq(string, 2, 3)]>> \o unquote(SubSeq(string, 4, Len(string)))
    ELSE <<string[1]>> \o unquote(Tail(string))

\* if audiofile.startswith('file://'): audiofile = unquote(audiofile[7:])
StripFileUri(audiofile) ==
    IF StartsWith(audiofile, <<"f", "i", "l", "e", ":", "/", "/">>)
    THEN unquote(SubSeq(audiofile, 8, Len(audiofile)))
    ELSE audiofile

\* is_pls_playlist(filename)
is_pls_playlist(filename) == FnmatchStar(Lower(Basename(filename)), <<".", "p", "l", "s">>)

\* is_m3u_playlist(filename): the loop runs over both patterns and matches
\* '*.m3u' in each round.
is_m3u_playlist(filename) ==
    \E pattern \in {<<".", "m", "3", "u">>, <<".", "m", "3", "u", "8">>} :
        FnmatchStar(Lower(Basename(filename)), <<".", "m", "3", "u">>)

\* is_playlist(filename)
is_playlist(filename) == is_pls_playlist(filename) \/ is_m3u_playlist(filename)

\* The end of the match of 'File[0-9]+=' at the start of the line, or 0.
PlsKeyEnd(line) ==
    IF StartsWith(line, <<"F", "i", "l", "e">>)
       /\ \E j \in 6..Len(line) : line[j] = "=" /\ \A k \in 5..(j-1) :
               \E d \in 1..10 : Digits[d] = line[k]
    THEN CHOOSE j \in 6..Len(line) : line[j] = "=" /\ \A k \in 5..(j-1) :
               \E d \in 1..10 : Digits[d] = line[k]
    ELSE 0

\* m.group(2) of '^(File[0-9]+)=(.*)$' on the line, or None without a match
PlsGroup(line) ==
    IF PlsKeyEnd(line) = 0 THEN None
    ELSE SubSeq(line, PlsKeyEnd(line) + 1, Len(line))

\* m.group(1) of '^([^#].*)$' on the line, or None without a match
M3uGroup(line) ==
    IF line = Empty \/ line[1] = "#" THEN None ELSE line

\* The audio file a line names (lines 194-197, 210-213), given the group of
\* its match: None when the line is passed over.
Audiofile(group) ==
    IF group = None \/ Len(Strip(group)) = 0 THEN None ELSE StripFileUri(group)

\* paths.insert(0, audiofile) in place of append
PrependPath(paths, audiofile) == <<audiofile>> \o paths

\* paths.append(audiofile)
AppendPath(paths, audiofile) == Append(paths, audiofile)

\* if is_audio_file(audiofile): paths.append(audiofile)
KeepAudio(paths, audiofile) ==
    IF audiofile # None /\ is_audio_file(audiofile) THEN AppendPath(paths, audiofile)
    ELSE paths

\* extract_pls_paths(plfile)
extract_pls_paths(lines) ==
    LET F[i \in 0..Len(lines)] ==
            IF i = 0 THEN <<>> ELSE KeepAudio(F[i-1], Audiofile(PlsGroup(lines[i])))
    IN F[Len(lines)]

\* extract_m3u_paths(plfile)
extract_m3u_paths(lines) ==
    LET F[i \in 0..Len(lines)] ==
            IF i = 0 THEN <<>> ELSE KeepAudio(F[i-1], Audiofile(M3uGroup(lines[i])))
    IN F[Len(lines)]

\* The outcome of get_audiofile_paths_from_playlist: the returned list, or
\* the UnsupportedFileError raised and its filetype field.
Returned(paths) == [raised |-> FALSE, filetype |-> Empty, paths |-> paths]
UnsupportedFileError(filetype) == [raised |-> TRUE, filetype |-> filetype, paths |-> <<>>]

\* pldir = os.path.dirname(filename); if pldir == '': pldir = '.'
PlaylistDir(filename) == OrDot(Dirname(filename))

\* os.chdir(pldir); return [os.path.abspath(p) for p in paths], the
\* process being in invokedir before
AbsPaths(paths, invokedir, pldir) ==
    [k \in 1..Len(paths) |-> Abspath(Abspath(invokedir, pldir), paths[k])]

\* get_audiofile_paths_from_playlist(filename), `lines` being the lines of
\* the file and invokedir the current directory
get_audiofile_paths_from_playlist(filename, lines, invokedir) ==
    IF is_pls_playlist(filename)
    THEN Returned(AbsPaths(extract_pls_paths(lines), invokedir, PlaylistDir(filename)))
    ELSE IF is_m3u_playlist(filename)
    THEN Returned(AbsPaths(extract_m3u_paths(lines), invokedir, PlaylistDir(filename)))
    ELSE UnsupportedFileError(Splitext(filename)[2])

\* The sources scan_inputs makes of a playlist input: one per extracted
\* path, in order, carrying the playlist file, its 1-based place in the
\* playlist and the number of extracted entries.
PlaylistSources(playlist_file, paths, codec) ==
    [k \in 1..Len(paths) |-> Source(paths[k], codec, playlist_file, k, Len(paths))]

(***************************************************************************)
(* Specification SpecTarget: generate_target_path(source, template, DestDir) *)
(* for audio files in ordinary and oddly named directories, every codec,    *)
(* tags that are unreadable, complete, or hold a title that ends like a     *)
(* file name, and templates that expand to relative, absolute and           *)
(* separator-terminated names.                                              *)
(***************************************************************************)
TargetFiles ==
    {<<"/", "i", "/", "x", ".", "o", "g", "g">>, <<"/", "?", "/", "x", ".", "o", "g", "g">>, <<"/", "i", "/", "y", ".", "O", "G", "G">>, <<"/", "i", "/", ".", "o", "g", "g">>, <<"/", "x", ".", "m", "p", "3">>}

TitleTags(title) == (<<"t", "i", "t", "l", "e">> :> <<title>>)

\* The tag files of the specification by name, and what Tags reads from each.
TargetTags == {"unreadable", "full", "title T.mp3", "title T.ogg", "title T.m4a"}

TagsNamed(name) ==
    CASE name = "unreadable" -> NoTags
      [] name = "full" -> FullTags
      [] name = "title T.mp3" -> TitleTags(<<"T", ".", "m", "p", "3">>)
      [] name = "title T.ogg" -> TitleTags(<<"T", ".", "o", "g", "g">>)
      [] name = "title T.m4a" -> TitleTags(<<"T", ".", "m", "4", "a">>)
      [] name = "empty" -> <<>>
      [] name = "tracknumber 3/12" -> (<<"t", "r", "a", "c", "k", "n", "u", "m", "b", "e", "r">> :> <<<<"3", "/", "1", "2">>>>)
      [] name = "tracknumber 7" -> (<<"t", "r", "a", "c", "k", "n", "u", "m", "b", "e", "r">> :> <<<<"7">>>>)
      [] name = "tracknumber x" -> (<<"t", "r", "a", "c", "k", "n", "u", "m", "b", "e", "r">> :> <<<<"x">>>>)
      [] name = "tracktotal 9" -> (<<"t", "r", "a", "c", "k", "t", "o", "t", "a", "l">> :> <<<<"9">>>>)
      [] name = "tracktotal x, tracknumber 3/12" ->
             (<<"t", "r", "a", "c", "k", "t", "o", "t", "a", "l">> :> <<<<"x">>>>) @@ (<<"t", "r", "a", "c", "k", "n", "u", "m", "b", "e", "r">> :> <<<<"3", "/", "1", "2">>>>)
      [] name = "discnumber 1" -> (<<"d", "i", "s", "c", "n", "u", "m", "b", "e", "r">> :> <<<<"1">>>>)
      [] name = "discnumber 1/2" -> (<<"d", "i", "s", "c", "n", "u", "m", "b", "e", "r">> :> <<<<"1", "/", "2">>>>)
      [] name = "two artists" -> (<<"a", "r", "t", "i", "s", "t">> :> <<<<"R">>, <<"S">>>>)

TargetTemplates ==
    {DEFAULT_TEMPLATE, DEFAULT_TEMPLATE_PLAYLIST, <<"<", "t", "i", "t", "l", "e", ">">>, <<"/", "<", "t", "i", "t", "l", "e", ">">>, <<"<", "t", "i", "t", "l", "e", ">", "/">>}

TargetSources ==
    {Source(f, codec, None, 0, 0) : f \in TargetFiles, codec \in DOMAIN FFMPEG_CODEC_EXT}
    \cup {Source(f, codec, PlaylistFile, 1, 2) : f \in TargetFiles, codec \in {"mp3", "copy"}}

InitTarget ==
    /\ g_source \in {src \in TargetSources : is_audio_file(src.filepath)}
    /\ g_tags \in TargetTags
    /\ g_template \in TargetTemplates
    /\ g_result = None
    /\ g_pc = "call"
    /\ IdleClean
    /\ IdleTemplate
    /\ IdlePlanner
    /\ IdleResolver
    /\ IdlePlaylist
    /\ IdleScan
    /\ IdleReplan
    /\ IdleCwd

CallGenerateTargetPath ==
    /\ g_pc = "call"
    /\ g_result' = generate_target_path(g_source, TagsNamed(g_tags), g_template, DestDir)
    /\ g_pc' = "done"
    /\ UNCHANGED <<g_source, g_tags, g_template, exceptTarget>>

NextTarget == CallGenerateTargetPath

SpecTarget == InitTarget /\ [][NextTarget]_vars

(***************************************************************************)
(* Specification SpecResolver: tag_variable_resolver(source)(var) for every *)
(* name of the vocabulary, names in upper case, a name outside it, a file   *)
(* alone and a file of a playlist, and tags that are unreadable, empty,     *)
(* complete, numeric, non-numeric and of the N/Total form.                  *)
(***************************************************************************)
ResolverVariables ==
    {<<"a">>, <<"a", "r", "t", "i", "s", "t">>, <<"b">>, <<"a", "l", "b", "u", "m">>, <<"t">>, <<"t", "i", "t", "l", "e">>, <<"a", "a">>, <<"a", "l", "b", "u", "m", "a", "r", "t", "i", "s", "t">>,
     <<"a", "a", "a">>, <<"a", "l", "b", "u", "m", "a", "r", "t", "i", "s", "t", "_", "o", "r", "_", "a", "r", "t", "i", "s", "t">>, <<"t", "n">>, <<"t", "r", "a", "c", "k">>, <<"t", "r", "a", "c", "k", "n", "u", "m", "b", "e", "r">>,
     <<"t", "t">>, <<"t", "r", "a", "c", "k", "t", "o", "t", "a", "l">>, <<"d", "n">>, <<"d", "i", "s", "c", "n", "u", "m", "b", "e", "r">>, <<"f", "i", "l", "e", "n", "a", "m", "e">>, <<"f", "i", "l", "e", "n", "a", "m", "e", "_", "n", "o", "e", "x", "t">>,
     <<"p", "a", "r", "e", "n", "t", "d", "i", "r", "_", "b", "a", "s", "e", "n", "a", "m", "e">>, <<"e", "x", "t">>, <<"f", "i", "l", "e", "n", "u", "m", "b", "e", "r">>, <<"t", "o", "t", "a", "l", "f", "i", "l", "e", "s">>, <<"p", "l", "a", "y", "l", "i", "s", "t", "_", "n", "a", "m", "e">>,
     <<"p", "l", "a", "y", "l", "i", "s", "t", "_", "f", "i", "l", "e", "n", "u", "m", "b", "e", "r">>, <<"p", "l", "a", "y", "l", "i", "s", "t", "_", "t", "o", "t", "a", "l", "f", "i", "l", "e", "s">>, <<"g", "e", "n", "r", "e">>, <<"T", "r", "a", "c", "k", "N", "u", "m", "b", "e", "r">>, <<"D", "N">>}

ResolverTags ==
    {"unreadable", "empty", "full", "tracknumber 3/12", "tracknumber 7", "tracknumber x",
     "tracktotal 9", "tracktotal x, tracknumber 3/12", "discnumber 1", "discnumber 1/2",
     "two artists"}

ResolverSources ==
    {Source(FileA, "mp3", None, 0, 0), Source(FileA, "mp3", PlaylistFile, 1, 2)}

InitResolver ==
    /\ r_source \in ResolverSources
    /\ r_tags \in ResolverTags
    /\ r_variable \in ResolverVariables
    /\ r_result = None
    /\ r_pc = "call"
    /\ IdleClean
    /\ IdleTemplate
    /\ IdlePlanner
    /\ IdleTarget
    /\ IdlePlaylist
    /\ IdleScan
    /\ IdleReplan
    /\ IdleCwd

\* resolver = tag_variable_resolver(source); resolver(var)
CallResolver ==
    /\ r_pc = "call"
    /\ r_result' = tag_variable_resolver(r_source, TagsNamed(r_tags), r_variable)
    /\ r_pc' = "done"
    /\ UNCHANGED <<r_source, r_tags, r_variable, exceptResolver>>

NextResolver == CallResolver

SpecResolver == InitResolver /\ [][NextResolver]_vars

(***************************************************************************)
(* Specification SpecPlaylist: get_audiofile_paths_from_playlist on        *)
(* playlist files named .m3u, .m3u8, .pls (in either case, with and        *)
(* without a directory) and .txt, holding up to MaxLines lines: paths,     *)
(* comments, blank lines, PLS entries out of numeric order, a file URI     *)
(* with an escape and a file that is not audio; then the sources made of   *)
(* the returned paths.                                                     *)
(***************************************************************************)
PlaylistFiles ==
    {<<"/", "p", "/", "l", ".", "m", "3", "u">>, <<"/", "p", "/", "l", ".", "m", "3", "u", "8">>, <<"/", "p", "/", "l", ".", "p", "l", "s">>, <<"/", "p", "/", "L", ".", "M", "3", "U">>, <<"l", ".", "p", "l", "s">>, <<"/", "p", "/", "l", ".", "t", "x", "t">>}

LinePool ==
    {<<"a", ".", "m", "p", "3">>, <<"#", "b", ".", "m", "p", "3">>, Empty, <<"F", "i", "l", "e", "2", "=", ".", ".", "/", "b", ".", "o", "g", "g">>, <<"F", "i", "l", "e", "1", "=", "a", ".", "m", "p", "3">>,
     <<"f", "i", "l", "e", ":", "/", "/", "/", "m", "/", "c", "%", "2", "0", "d", ".", "m", "p", "3">>, <<"n", ".", "t", "x", "t">>}

PlaylistContents == UNION {[1..k -> LinePool] : k \in 0..MaxLines}

InvokeDir == <<"/", "w">>

InitPlaylist ==
    /\ p_filename \in PlaylistFiles
    /\ p_lines \in PlaylistContents
    /\ p_cwd = InvokeDir
    /\ p_result = NoOutcome
    /\ p_sources = <<>>
    /\ p_pc = "call"
    /\ IdleClean
    /\ IdleTemplate
    /\ IdlePlanner
    /\ IdleTarget
    /\ IdleResolver
    /\ IdleScan
    /\ IdleReplan
    /\ IdleCwd

\* paths = get_audiofile_paths_from_playlist(filename), then one Source per
\* path; the finally clause is back in the directory of the call.
ScanPlaylist ==
    /\ p_pc = "call"
    /\ p_result' = get_audiofile_paths_from_playlist(p_filename, p_lines, p_cwd)
    /\ p_sources' = PlaylistSources(p_filename, p_result'.paths, "mp3")
    /\ p_pc' = IF p_result'.raised THEN "raised" ELSE "done"
    /\ UNCHANGED <<p_filename, p_lines, p_cwd, exceptPlaylist>>

NextPlaylist == ScanPlaylist

SpecPlaylist == InitPlaylist /\ [][NextPlaylist]_vars

(***************************************************************************)
(* Directory scanning: get_audiofile_paths.  A directory tree is a function *)
(* from the absolute path of each directory to its entries as the           *)
(* filesystem lists them: the names of its subdirectories and the names of  *)
(* its other entries, each in listing order (os.walk keeps that order in    *)
(* the lists it yields).                                                    *)
(***************************************************************************)
\* the characters of the model's names in code point order
CodePoints == <<" ", ".", "/">> \o Digits \o UpperLetters \o <<"_">> \o LowerLetters

\* ord(c)
Ord(c) == CHOOSE i \in 1..Len(CodePoints) : CodePoints[i] = c

\* a < b for two str values
StrLess(a, b) ==
    \E k \in 1..(Len(b)) :
        /\ k <= Len(a) + 1
        /\ SubSeq(a, 1, k - 1) = SubSeq(b, 1, k - 1)
        /\ (k = Len(a) + 1 \/ Ord(a[k]) < Ord(b[k]))

NamesOf(names) == {names[i] : i \in 1..Len(names)}

\* list.sort() of a list of distinct names, as it is left in place
SortNames(names) ==
    [k \in 1..Len(names) |->
        CHOOSE x \in NamesOf(names) :
            Cardinality({y \in NamesOf(names) : StrLess(y, x)}) = k - 1]

\* os.path.isfile(path)
IsFile(tree, cwd, path) ==
    \E dir \in DOMAIN tree :
        \E f \in NamesOf(tree[dir].files) : PathJoin(dir, f) = Abspath(cwd, path)

\* os.path.isdir(path)
IsDir(tree, cwd, path) == Abspath(cwd, path) \in DOMAIN tree

\* [os.path.normpath(os.path.join(dir, f)) for f in filter(is_audio_file, files)]
AudioPathsIn(dir, files) ==
    LET F[i \in 0..Len(files)] ==
            IF i = 0 THEN <<>>
            ELSE IF is_audio_file(files[i])
                 THEN Append(F[i-1], Normpath(PathJoin(dir, files[i])))
            ELSE F[i-1]
    IN F[Len(files)]

\* the loop over os.walk(directory), top down: the sorted files of dir, then
\* the walk of each subdirectory in the order subdirs.sort() left them in
RECURSIVE Walk(_, _, _)
RECURSIVE WalkSubdirs(_, _, _, _)
WalkSubdirs(tree, cwd, dir, subdirs) ==
    IF subdirs = <<>> THEN <<>>
    ELSE Walk(tree, cwd, PathJoin(dir, Head(subdirs)))
         \o WalkSubdirs(tree, cwd, dir, Tail(subdirs))

WalkListed(tree, cwd, dir, listed) ==
    AudioPathsIn(dir, SortNames(listed.files))
    \o WalkSubdirs(tree, cwd, dir, SortNames(listed.subdirs))

Walk(tree, cwd, dir) ==
    IF ~IsDir(tree, cwd, dir) THEN <<>>
    ELSE WalkListed(tree, cwd, dir, tree[Abspath(cwd, dir)])

AbspathEach(cwd, paths) == [i \in 1..Len(paths) |-> Abspath(cwd, paths[i])]

\* get_audiofile_paths(directory)
get_audiofile_paths(tree, cwd, directory) ==
    IF IsFile(tree, cwd, directory)
    THEN IF is_audio_file(directory) THEN <<Abspath(cwd, directory)>> ELSE <<>>
    ELSE AbspathEach(cwd, Walk(tree, cwd, directory))

(***************************************************************************)
(* SpecScan: one call of get_audiofile_paths on a tree /t with optional     *)
(* subdirectories A and b and an optional b/c, every directory listed in    *)
(* one of the orders of FileListings and SubdirListings.                    *)
(***************************************************************************)
ScanRoot == <<"/", "t">>
ScanCwd == <<"/">>

FileListings ==
    {<<>>, <<<<"a", ".", "m", "p", "3">>>>,
     <<<<"c", ".", "t", "x", "t">>, <<"B", ".", "M", "P", "3">>>>,
     <<<<"a", ".", "m", "p", "3">>, <<"B", ".", "M", "P", "3">>>>,
     <<<<"B", ".", "M", "P", "3">>, <<"a", ".", "m", "p", "3">>>>,
     <<<<".", "m", "p", "3">>, <<"a", ".", "m", "p", "3">>>>}

SubdirListings ==
    {<<>>, <<<<"A">>>>, <<<<"b">>>>, <<<<"A">>, <<"b">>>>, <<<<"b">>, <<"A">>>>}

NestedListings == {<<>>, <<<<"c">>>>}

DirA == PathJoin(ScanRoot, <<"A">>)
DirB == PathJoin(ScanRoot, <<"b">>)
DirC == PathJoin(DirB, <<"c">>)

ScanDirs(rs, bs) ==
    {ScanRoot} \cup (IF <<"A">> \in NamesOf(rs) THEN {DirA} ELSE {})
               \cup (IF <<"b">> \in NamesOf(rs) THEN {DirB} ELSE {})
               \cup (IF <<"b">> \in NamesOf(rs) /\ <<"c">> \in NamesOf(bs) THEN {DirC} ELSE {})

TreeOf(rs, bs, rf, af, bf, cf) ==
    [d \in ScanDirs(rs, bs) |->
        IF d = ScanRoot THEN [subdirs |-> rs, files |-> rf]
        ELSE IF d = DirA THEN [subdirs |-> <<>>, files |-> af]
        ELSE IF d = DirB THEN [subdirs |-> bs, files |-> bf]
        ELSE [subdirs |-> <<>>, files |-> cf]]

ScanTrees ==
    {TreeOf(rs, bs, rf, af, bf, cf) :
        rs \in SubdirListings, bs \in NestedListings,
        rf \in FileListings, af \in FileListings, bf \in FileListings, cf \in FileListings}

ScanInputs ==
    {ScanRoot, <<"t">>, DirB, <<"/", "t", "/", "a", ".", "m", "p", "3">>, <<"/", "t", "/", "c", ".", "t", "x", "t">>}

InitScan ==
    /\ d_tree \in ScanTrees
    /\ d_input \in ScanInputs
    /\ d_result = <<>>
    /\ d_pc = "call"
    /\ IdleClean
    /\ IdleTemplate
    /\ IdlePlanner
    /\ IdleTarget
    /\ IdleResolver
    /\ IdlePlaylist
    /\ IdleReplan
    /\ IdleCwd

CallGetAudiofilePaths ==
    /\ d_pc = "call"
    /\ d_result' = get_audiofile_paths(d_tree, ScanCwd, d_input)
    /\ d_pc' = "done"
    /\ UNCHANGED <<d_tree, d_input, exceptScan>>

NextScan == CallGetAudiofilePaths

SpecScan == InitScan /\ [][NextScan]_vars

(***************************************************************************)
(* SpecReplan: prepare_work_units called twice with the same arguments, as *)
(* test_prepare_workunits_overwrite_if_older does: between the two calls   *)
(* the files are left alone or one of them gets another modification time. *)
(***************************************************************************)
MaxReplanSources == 2

ReplanLists == UNION {[1..k -> SourcePool] : k \in 0..MaxReplanSources}

\* os.utime(path, (mtime, mtime))
Utime(fsys, path, mtime) == [fsys EXCEPT ![path] = mtime]

\* the files between the two calls
Touched(fsys) ==
    {fsys} \cup {Utime(fsys, path, m) :
                    path \in {q \in DOMAIN fsys : PathExists(fsys, q)}, m \in 1..MaxMtime}

\* a dictionary that outlives the call
KeptClaims(claims) == claims

\* targetpaths = {} at the start of every call (line 556)
FreshClaims(claims) == <<>>

InitReplan ==
    /\ sources \in ReplanLists
    /\ overwritemode \in OverwriteModes
    /\ fs \in FileSystems
    /\ \A i \in 1..Len(sources) : PathExists(fs, sources[i].filepath)
    /\ work_units = <<>>
    /\ targetpaths = <<>>
    /\ pc = "loop"
    /\ n_pass = 1
    /\ n_first = <<>>
    /\ n_fs = fs
    /\ IdleClean
    /\ IdleTemplate
    /\ IdleTarget
    /\ IdleResolver
    /\ IdlePlaylist
    /\ IdleScan
    /\ IdleCwd

\* the first call has returned; the second call starts (lines 556-557) on
\* the same sources, with the same overwrite mode
Replan ==
    /\ pc = "done"
    /\ n_pass = 1
    /\ n_first' = work_units
    /\ n_fs' = fs
    /\ n_pass' = 2
    /\ fs' \in Touched(fs)
    /\ targetpaths' = FreshClaims(targetpaths)
    /\ work_units' = <<>>
    /\ pc' = "loop"
    /\ UNCHANGED <<sources, overwritemode, cleanVars, templateVars, targetVars,
                   resolverVars, playlistVars, scanVars, cwdVars>>

NextReplan == Next \/ Replan

SpecReplan == InitReplan /\ [][NextReplan]_vars

(***************************************************************************)
(* SpecCwd: get_audiofile_paths_from_playlist statement by statement, the  *)
(* current directory of the process being p_cwd.  w_access says what the   *)
(* system refuses during the call: nothing, the open of the playlist file, *)
(* or the change into the playlist's directory.                            *)
(***************************************************************************)
InvokeDirs == {InvokeDir, <<"/", "p">>, <<"/">>}

CwdContents == {<<>>} \cup {<<line>> : line \in LinePool}

Accesses == {"ok", "nofile", "nochdir"}

\* os.chdir(path) in the directory cwd: the directory the process is in then
Chdir(cwd, path) == Abspath(cwd, path)

\* A finally clause that stays where it is.
StayInDir(cwd, invokedir) == cwd

\* finally: os.chdir(invokedir)
RestoreDir(cwd, invokedir) == Chdir(cwd, invokedir)

\* plfile.close() in the finally clause: plfile is unbound when open() raised
\* and the UnboundLocalError takes the place of the exception on its way out
AfterClose(exc) == IF exc = "FileNotFoundError" THEN "UnboundLocalError" ELSE exc

InitCwd ==
    /\ p_filename \in PlaylistFiles
    /\ p_lines \in CwdContents
    /\ p_cwd \in InvokeDirs
    /\ p_result = NoOutcome
    /\ p_sources = <<>>
    /\ p_pc = "call"
    /\ w_invokedir = <<>>
    /\ w_start = p_cwd
    /\ w_access \in Accesses
    /\ w_paths = <<>>
    /\ w_exc = ""
    /\ IdleClean
    /\ IdleTemplate
    /\ IdlePlanner
    /\ IdleTarget
    /\ IdleResolver
    /\ IdleScan
    /\ IdleReplan

\* lines 221-224: invokedir = os.getcwd(); pldir
EnterPlaylist ==
    /\ p_pc = "call"
    /\ w_invokedir' = p_cwd
    /\ p_pc' = "open"
    /\ UNCHANGED <<p_filename, p_lines, p_cwd, p_result, p_sources,
                   w_start, w_access, w_paths, w_exc, exceptCwd>>

\* line 227: plfile = open(filename, 'r', encoding='utf8')
OpenPlaylist ==
    /\ p_pc = "open"
    /\ IF w_access = "nofile"
       THEN w_exc' = "FileNotFoundError" /\ p_pc' = "finally"
       ELSE w_exc' = w_exc /\ p_pc' = "extract"
    /\ UNCHANGED <<p_filename, p_lines, p_cwd, p_result, p_sources,
                   w_invokedir, w_start, w_access, w_paths, exceptCwd>>

\* lines 228-234: the paths of the playlist, or UnsupportedFileError
ExtractPaths ==
    /\ p_pc = "extract"
    /\ IF is_pls_playlist(p_filename)
       THEN /\ w_paths' = extract_pls_paths(p_lines)
            /\ p_pc' = "chdir"
            /\ UNCHANGED <<p_result, w_exc>>
       ELSE IF is_m3u_playlist(p_filename)
       THEN /\ w_paths' = extract_m3u_paths(p_lines)
            /\ p_pc' = "chdir"
            /\ UNCHANGED <<p_result, w_exc>>
       ELSE /\ p_result' = UnsupportedFileError(Splitext(p_filename)[2])
            /\ w_exc' = "UnsupportedFileError"
            /\ p_pc' = "finally"
            /\ UNCHANGED w_paths
    /\ UNCHANGED <<p_filename, p_lines, p_cwd, p_sources,
                   w_invokedir, w_start, w_access, exceptCwd>>

\* line 236: os.chdir(pldir)
ChdirPlaylistDir ==
    /\ p_pc = "chdir"
    /\ IF w_access = "nochdir"
       THEN w_exc' = "OSError" /\ p_pc' = "finally" /\ UNCHANGED p_cwd
       ELSE /\ p_cwd' = Chdir(p_cwd, PlaylistDir(p_filename))
            /\ p_pc' = "abspath"
            /\ UNCHANGED w_exc
    /\ UNCHANGED <<p_filename, p_lines, p_result, p_sources,
                   w_invokedir, w_start, w_access, w_paths, exceptCwd>>

\* line 237: return [os.path.abspath(p) for p in paths]
ReturnAbspaths ==
    /\ p_pc = "abspath"
    /\ p_result' = Returned([k \in 1..Len(w_paths) |-> Abspath(p_cwd, w_paths[k])])
    /\ p_pc' = "finally"
    /\ UNCHANGED <<p_filename, p_lines, p_cwd, p_sources,
                   w_invokedir, w_start, w_access, w_paths, w_exc, exceptCwd>>

\* lines 239-241: finally: os.chdir(invokedir); plfile.close()
Finally ==
    /\ p_pc = "finally"
    /\ p_cwd' = RestoreDir(p_cwd, w_invokedir)
    /\ w_exc' = AfterClose(w_exc)
    /\ p_pc' = IF w_exc' = "" THEN "done" ELSE "raised"
    /\ UNCHANGED <<p_filename, p_lines, p_result, p_sources,
                   w_invokedir, w_start, w_access, w_paths, exceptCwd>>

NextCwd ==
    \/ EnterPlaylist
    \/ OpenPlaylist
    \/ ExtractPaths
    \/ ChdirPlaylistDir
    \/ ReturnAbspaths
    \/ Finally

SpecCwd == InitCwd /\ [][NextCwd]_vars

(***************************************************************************)
(* Properties of prepare_work_units (specification Spec).                  *)
(***************************************************************************)
Units == 1..Len(work_units)
StatusOf(i) == work_units[i].status
TargetOf(i) == work_units[i].targetpath
SourcePathOf(i) == work_units[i].source.filepath

\* The unit's status has been assigned in this pass.
Decided(i) == i < Len(work_units) \/ pc \in {"loop", "done"}

\* An earlier unit of the pass reached the collision check with the same
\* target path: the path was claimed before unit i came to it.
ClaimedEarlier(i) ==
    \E j \in 1..(i-1) : TargetOf(j) = TargetOf(i) /\ SourcePathOf(j) # TargetOf(j)

FirstClaimant(i) == SourcePathOf(i) # TargetOf(i) /\ ~ClaimedEarlier(i)

\* C1: no two READY units have the same targetpath, and of the sources that
\* map to one target path that does not exist, the first is READY and every
\* later one is SKIPPED_NAME_COLLISION.
C1_FirstSeenWins ==
    /\ \A i, j \in Units :
          i < j /\ StatusOf(i) = "READY" /\ StatusOf(j) = "READY"
              => TargetOf(i) # TargetOf(j)
    /\ pc = "done" =>
          \A j \in Units :
              LET group == {k \in Units : TargetOf(k) = TargetOf(j)}
              IN (~PathExists(fs, TargetOf(j)) /\ \A k \in group : SourcePathOf(k) # TargetOf(k))
                 => StatusOf(j) = IF \A k \in group : j <= k THEN "READY"
                                  ELSE "SKIPPED_NAME_COLLISION"

\* Three sources with one target that does not exist: READY, then two collisions.
C1_Witness ==
    /\ pc = "done"
    /\ \E i, j, k \in Units :
          /\ i < j /\ j < k
          /\ TargetOf(i) = TargetOf(j) /\ TargetOf(j) = TargetOf(k)
          /\ ~PathExists(fs, TargetOf(i))
          /\ StatusOf(i) = "READY"
          /\ StatusOf(j) = "SKIPPED_NAME_COLLISION"
          /\ StatusOf(k) = "SKIPPED_NAME_COLLISION"

\* The status the overwrite policy gives a unit whose target exists.
PolicyStatus(i) ==
    IF overwritemode = "NO_OVERWRITE" THEN "SKIPPED_TARGETPATH_EXISTS"
    ELSE IF overwritemode = "OVERWRITE_IF_OLDER" /\ fs[TargetOf(i)] >= fs[SourcePathOf(i)]
    THEN "SKIPPED_TARGETPATH_NEWER"
    ELSE "READY"

\* C2: the status of every unit is that of the first rule that applies, in
\* the order: target equals source, target claimed earlier in the pass,
\* target exists (overwrite policy), otherwise READY.
C2_RulePrecedence ==
    \A i \in Units :
        (Decided(i) /\ TargetOf(i) # None) =>
            StatusOf(i) =
                IF SourcePathOf(i) = TargetOf(i) THEN "SKIPPED_TARGETPATH_EQ_SOURCEPATH"
                ELSE IF ClaimedEarlier(i) THEN "SKIPPED_NAME_COLLISION"
                ELSE IF PathExists(fs, TargetOf(i)) THEN PolicyStatus(i)
                ELSE "READY"

\* A collision on a target that exists and would otherwise be overwritten, and
\* in the same pass a unit that has itself as target.
C2_Witness ==
    /\ pc = "done"
    /\ overwritemode = "OVERWRITE"
    /\ \E i, j \in Units :
          /\ StatusOf(i) = "SKIPPED_NAME_COLLISION"
          /\ PathExists(fs, TargetOf(i))
          /\ StatusOf(j) = "SKIPPED_TARGETPATH_EQ_SOURCEPATH"

\* The units that were skipped after they had claimed their target.
SkippedAfterClaim == {"SKIPPED_TARGETPATH_EXISTS", "SKIPPED_TARGETPATH_NEWER"}

C4_ExistingTargetPolicy ==
    \A i \in Units :
        (Decided(i) /\ TargetOf(i) # None /\ FirstClaimant(i) /\ PathExists(fs, TargetOf(i))) =>
            /\ overwritemode = "NO_OVERWRITE" => StatusOf(i) = "SKIPPED_TARGETPATH_EXISTS"
            /\ overwritemode = "OVERWRITE" => StatusOf(i) = "READY"

C4_Witness ==
    /\ pc = "done"
    /\ overwritemode = "OVERWRITE"
    /\ \E i \in Units :
          /\ FirstClaimant(i) /\ PathExists(fs, TargetOf(i))
          /\ StatusOf(i) = "READY"

\* C5: under OVERWRITE_IF_OLDER a first claimant whose target exists is
\* SKIPPED_TARGETPATH_NEWER exactly when the target's modification time is
\* greater than or equal to the source's, and READY when it is less.
C5_IfOlderComparesMtime ==
    \A i \in Units :
        (/\ Decided(i) /\ TargetOf(i) # None /\ FirstClaimant(i)
         /\ PathExists(fs, TargetOf(i)) /\ overwritemode = "OVERWRITE_IF_OLDER") =>
            /\ StatusOf(i) = "SKIPPED_TARGETPATH_NEWER"
                  <=> fs[TargetOf(i)] >= fs[SourcePathOf(i)]
            /\ fs[TargetOf(i)] < fs[SourcePathOf(i)] => StatusOf(i) = "READY"

\* Equal modification times: the unit is skipped.
C5_Witness ==
    /\ pc = "done"
    /\ overwritemode = "OVERWRITE_IF_OLDER"
    /\ \E i \in Units :
          /\ FirstClaimant(i) /\ PathExists(fs, TargetOf(i))
          /\ fs[TargetOf(i)] = fs[SourcePathOf(i)]
          /\ StatusOf(i) = "SKIPPED_TARGETPATH_NEWER"

\* C6: the list returned has one unit per source, in the order of the
\* sources: the i-th unit's source is the i-th source.
C6_OneUnitPerSourceInOrder ==
    pc = "done" =>
        /\ Len(work_units) = Len(sources)
        /\ \A i \in Units : work_units[i].source = sources[i]

\* A full-length pass over distinct sources with skipped and READY units.
C6_Witness ==
    /\ pc = "done"
    /\ Len(work_units) = MaxSources
    /\ \E i, j \in Units :
          /\ i < j /\ sources[i] # sources[j]
          /\ StatusOf(i) = "SKIPPED_TARGETPATH_EQ_SOURCEPATH"
          /\ StatusOf(j) = "READY"

\* C7: a unit has status INIT from its creation until the pass assigns its
\* one terminal status.
C7_InitUntilDecided ==
    \A i \in Units :
        IF Decided(i)
        THEN StatusOf(i) \in StatusMembers \ {"INIT"}
        ELSE StatusOf(i) = "INIT"

(***************************************************************************)
(* Properties of expand_template (specification SpecTemplate).             *)
(***************************************************************************)
\* The texts between '<' and '>' of the placeholders of a template.
PlaceholderGroups(t) ==
    {SubSeq(t, i + 1, MatchEnd(t, i) - 1) : i \in {k \in 1..Len(t) : MatchEnd(t, k) # 0}}

\* The number of '+'-separated segments of a placeholder's text.
SegmentCount(group) == 1 + Cardinality({i \in 1..Len(group) : group[i] = "+"})

\* C8: expand_template fails with TemplateError exactly when a placeholder
\* has more than three segments.
C8_TooManySegmentsRaises ==
    t_pc = "done" =>
        (t_result = TemplateError
            <=> \E g \in PlaceholderGroups(t_template) : SegmentCount(g) > 3)

\* The variable, prefix and suffix of a template that is one placeholder of
\* two or three segments, by the positions of its '+'.
PlusAt(t) == {i \in 1..Len(t) : t[i] = "+"}
FirstPlus(t) == CHOOSE i \in PlusAt(t) : \A k \in PlusAt(t) : i <= k
LastPlus(t) == CHOOSE i \in PlusAt(t) : \A k \in PlusAt(t) : k <= i
IsConditionalPlaceholder(t) ==
    /\ Len(t) >= 3 /\ MatchEnd(t, 1) = Len(t)
    /\ Cardinality(PlusAt(t)) \in {1, 2}
SegPrefix(t) == IF Cardinality(PlusAt(t)) = 2 THEN SubSeq(t, 2, FirstPlus(t) - 1) ELSE Empty
SegVar(t) ==
    IF Cardinality(PlusAt(t)) = 2 THEN SubSeq(t, FirstPlus(t) + 1, LastPlus(t) - 1)
    ELSE SubSeq(t, 2, FirstPlus(t) - 1)
SegSuffix(t) == SubSeq(t, LastPlus(t) + 1, Len(t) - 1)
SegValue(t) ==
    LET v == DictResolve(TemplateDict, SegVar(t))
    IN IF v # None /\ ~t_allow THEN ReplaceSlash(v) ELSE v

\* C9: a two- or three-segment placeholder expands to the empty string when
\* its variable resolves to no value or to the empty string, and to
\* prefix + value + suffix otherwise.
C9_AffixesOnlyWithNonEmptyValue ==
    (t_pc = "done" /\ IsConditionalPlaceholder(t_template)) =>
        t_result = IF SegValue(t_template) \in {None, Empty} THEN Empty
                   ELSE SegPrefix(t_template) \o SegValue(t_template) \o SegSuffix(t_template)

(***************************************************************************)
(* Properties of clean_path (specification SpecClean).                     *)
(***************************************************************************)
\* C10: the output of clean_path has no dot immediately before or after a
\* path separator, so no segment of it consists of dots.
C10_NoDotsNextToSeparator ==
    c_pc = "done" =>
        \A i \in 1..Len(c_result) :
            c_result[i] = "/" =>
                /\ i > 1 => c_result[i-1] # "."
                /\ i < Len(c_result) => c_result[i+1] # "."

(***************************************************************************)
(* Properties of generate_target_path (specification SpecTarget).          *)
(***************************************************************************)
\* The relative name in a path returned for destination root DestDir, or
\* None when the path is not DestDir, a separator and a name.
NameUnderDestDir(path) ==
    IF StartsWith(path, DestDir \o <<"/">>)
    THEN SubSeq(path, Len(DestDir) + 2, Len(path))
    ELSE None

\* A usable relative name.
Usable(name) ==
    name # None /\ name # Empty /\ ~EndsWith(name, <<"/">>) /\ ~IsAbs(name)

\* The expanded, sanitized and stripped template of the call.
SanitizedTemplate ==
    Strip(clean_path(expand_template(g_template, TagResolver(g_source, TagsNamed(g_tags)), FALSE)))

\* C11: generate_target_path always returns DestDir joined with a usable
\* relative name (non-empty, not ending in a separator, not absolute), and
\* whenever the expanded and sanitized template is empty, ends in a
\* separator or is absolute, the name is the sanitized
\* parentdir_basename/basename-without-extension of the source.
C11_UsableNameUnderDestDir ==
    g_pc = "done" =>
        /\ g_result \notin Errors
        /\ Usable(NameUnderDestDir(g_result))
        /\ BadName(SanitizedTemplate) =>
               StartsWith(NameUnderDestDir(g_result), FallbackName(g_source))

\* The name the extension is added to: the sanitized template, or the
\* fallback name where that one cannot be used.
NameBeforeExt ==
    IF BadName(SanitizedTemplate) THEN FallbackName(g_source) ELSE SanitizedTemplate

\* The extension the claim names: the canonical one of a real codec, the
\* source's own extension in lower case for codec copy.
CanonicalExt ==
    CASE g_source.codec = "mp3" -> <<"m", "p", "3">>
      [] g_source.codec = "vorbis" -> <<"o", "g", "g">>
      [] g_source.codec \in {"aac", "fdkaac"} -> <<"m", "4", "a">>
      [] g_source.codec = "copy" -> Lower(Tail(Splitext(g_source.filepath)[2]))

C13_ResolverNeverRaises ==
    r_pc = "done" => r_result \notin Errors

\* The tag a track or disc number variable reads, or None for another
\* variable.
NumberTagOf(variable) ==
    CASE Lower(variable) \in {<<"t", "n">>, <<"t", "r", "a", "c", "k">>, <<"t", "r", "a", "c", "k", "n", "u", "m", "b", "e", "r">>} -> <<"t", "r", "a", "c", "k", "n", "u", "m", "b", "e", "r">>
      [] Lower(variable) \in {<<"d", "n">>, <<"d", "i", "s", "c", "n", "u", "m", "b", "e", "r">>} -> <<"d", "i", "s", "c", "n", "u", "m", "b", "e", "r">>
      [] OTHER -> None

\* The N of a value of the form N or N/Total.
Numerator(value) == Split(value, "/", -1)[1]

\* C18: track and disc numbers are zero-padded to 2 digits, the numerator
\* taken from an N/Total value: discnumber (or dn) with tag value 1/2 gives
\* 01, as tracknumber 3/12 gives 03.
C18_NumeratorZeroPadded ==
    (/\ r_pc = "done"
     /\ NumberTagOf(r_variable) # None
     /\ Truthy(TagsGet(TagsNamed(r_tags), NumberTagOf(r_variable)))
     /\ IsNumber(Numerator(TagsGet(TagsNamed(r_tags), NumberTagOf(r_variable)))))
    => r_result = Zfill(Numerator(TagsGet(TagsNamed(r_tags), NumberTagOf(r_variable))), 2)

(***************************************************************************)
(* Properties of playlist parsing (specification SpecPlaylist).            *)
(***************************************************************************)
\* The extension of the playlist file, in lower case.
PlaylistExt == Lower(Splitext(p_filename)[2])

\* The name of the playlist file with its last character left off (.m3u
\* for a file named .m3u8).
WithoutLastChar == SubSeq(p_filename, 1, Len(p_filename) - 1)

\* C14: a file with extension .m3u8 is recognised as an M3U playlist and
\* parsed by the same line grammar: is_m3u_playlist is true for it and
\* get_audiofile_paths_from_playlist returns the paths it returns for a
\* .m3u file with the same content.
C14_M3u8ParsedAsM3u ==
    (p_pc # "call" /\ PlaylistExt = <<".", "m", "3", "u", "8">>) =>
        /\ is_m3u_playlist(p_filename)
        /\ ~p_result.raised
        /\ p_result = get_audiofile_paths_from_playlist(WithoutLastChar, p_lines, p_cwd)

\* C15: get_audiofile_paths_from_playlist fails with UnsupportedFileError,
\* its filetype field being the extension of the file, exactly for files
\* whose extension is none of .pls, .m3u and .m3u8, and returns no paths
\* in that case.
C15_UnsupportedExactlyForOtherExtensions ==
    p_pc # "call" =>
        /\ p_result.raised <=> PlaylistExt \notin {<<".", "p", "l", "s">>, <<".", "m", "3", "u">>, <<".", "m", "3", "u", "8">>}
        /\ p_result.raised =>
               /\ p_result.filetype = Splitext(p_filename)[2]
               /\ p_result.paths = <<>>
               /\ p_sources = <<>>

\* The absolute path line i of the playlist contributes, by the grammar of
\* the file's type, or None for a line that contributes nothing.
EntryOf(i) ==
    IF Audiofile(IF is_pls_playlist(p_filename) THEN PlsGroup(p_lines[i])
                 ELSE M3uGroup(p_lines[i])) = None
       \/ ~is_audio_file(Audiofile(IF is_pls_playlist(p_filename) THEN PlsGroup(p_lines[i])
                                   ELSE M3uGroup(p_lines[i])))
    THEN None
    ELSE Abspath(Abspath(p_cwd, PlaylistDir(p_filename)),
                 Audiofile(IF is_pls_playlist(p_filename) THEN PlsGroup(p_lines[i])
                           ELSE M3uGroup(p_lines[i])))

EntryLines == {i \in 1..Len(p_lines) : EntryOf(i) # None}

\* The k-th line, from the top, that contributes an entry.
KthEntryLine(k) ==
    CHOOSE i \in EntryLines : Cardinality({j \in EntryLines : j <= i}) = k

\* C17: the sources of a playlist are in the playlist's line order (PLS
\* entries not sorted by their number, comment and blank lines giving
\* nothing), the k-th source has playlist_filenumber k, and all have
\* playlist_totalfiles equal to the number of entries extracted.
C17_PlaylistOrderAndNumbers ==
    p_pc = "done" =>
        /\ Len(p_sources) = Cardinality(EntryLines)
        /\ \A k \in 1..Len(p_sources) :
              /\ p_sources[k].filepath = EntryOf(KthEntryLine(k))
              /\ p_sources[k].playlist_file = p_filename
              /\ p_sources[k].playlist_filenumber = k
              /\ p_sources[k].playlist_totalfiles = Cardinality(EntryLines)

\* A PLS playlist that lists File2 before File1, with a line in between
\* that gives nothing, has been resolved.
C17_Witness ==
    /\ p_pc = "done"
    /\ p_filename = <<"/", "p", "/", "l", ".", "p", "l", "s">>
    /\ p_lines = <<<<"F", "i", "l", "e", "2", "=", ".", ".", "/", "b", ".", "o", "g", "g">>, <<"#", "b", ".", "m", "p", "3">>, <<"F", "i", "l", "e", "1", "=", "a", ".", "m", "p", "3">>>>
    /\ Len(p_sources) = 2
    /\ p_sources[1].filepath = <<"/", "b", ".", "o", "g", "g">>
    /\ p_sources[2].playlist_filenumber = 2
(***************************************************************************)
(* Directory scanning, checked under SpecScan.                              *)
(***************************************************************************)
\* the extensions of INPUT_AUDIOFILE_PATTERNS
AudioExtensions == {<<"m", "p", "3">>, <<"o", "g", "g">>, <<"f", "l", "a", "c">>, <<"m", "4", "a">>, <<"m", "p", "c">>, <<"w", "a", "v">>}

\* the directories of the tree at or below directory top
DirsUnder(tree, top) ==
    {d \in DOMAIN tree : d = top \/ StartsWith(d, top \o <<"/">>)}

\* the files of the tree at or below top whose extension, lower-cased, is
\* one of the audio extensions
AudioFilesUnder(tree, top) ==
    UNION {{PathJoin(d, f) : f \in {g \in NamesOf(tree[d].files) :
                                        get_normalized_extension(g) \in AudioExtensions}} :
           d \in DirsUnder(tree, top)}

\* the same tree with every directory listed in the opposite order
Reversed(names) == [i \in 1..Len(names) |-> names[Len(names) + 1 - i]]
Relisted(tree) ==
    [d \in DOMAIN tree |->
        [subdirs |-> Reversed(tree[d].subdirs), files |-> Reversed(tree[d].files)]]

ScannedDirectory == d_pc = "done" /\ IsDir(d_tree, ScanCwd, d_input)

\* the result holds exactly the audio files of the tree, each once
ScanExact ==
    ScannedDirectory =>
        /\ NamesOf(d_result) = AudioFilesUnder(d_tree, Abspath(ScanCwd, d_input))
        /\ Len(d_result) = Cardinality(NamesOf(d_result))

\* path p sorts before path q at the tree level where they part: by file
\* name when both are files of one directory, by subdirectory name when they
\* lie in two subdirectories of one directory
LevelSorted(p, q) ==
    \A k \in 1..Len(p) :
        (k <= Len(q) /\ SubSeq(p, 1, k - 1) = SubSeq(q, 1, k - 1) /\ p[k] # q[k]
         /\ ((k = Len(p)) <=> (k = Len(q))))
        => StrLess(p[k], q[k])

ScanOrdered ==
    ScannedDirectory =>
        \A i, j \in 1..Len(d_result) :
            i < j => LevelSorted(Split(d_result[i], "/", -1), Split(d_result[j], "/", -1))

\* the result does not depend on the order the directories are listed in
ScanIndependent ==
    ScannedDirectory =>
        d_result = get_audiofile_paths(Relisted(d_tree), ScanCwd, d_input)

\* C16: scanning a directory returns exactly the files of the tree whose
\* extension is an audio extension, case-insensitively, each once, ordered by
\* file name and by subdirectory name at every level of the tree, whatever
\* order the filesystem lists the entries in.
C16_ScanExactSortedIndependent == ScanExact /\ ScanOrdered /\ ScanIndependent

(***************************************************************************)
(* Two calls of prepare_work_units, checked under SpecReplan.               *)
(***************************************************************************)
SecondReturned == n_pass = 2 /\ pc = "done"

\* the same files: the second call returns what the first returned
SamePlan == (SecondReturned /\ fs = n_fs) => work_units = n_first

\* a unit of the second call collides only with an earlier unit of that call
NoCollisionAcrossPasses ==
    n_pass = 2 =>
        \A i \in 1..Len(work_units) :
            work_units[i].status = "SKIPPED_NAME_COLLISION" =>
                \E j \in 1..(i - 1) : work_units[j].targetpath = work_units[i].targetpath

\* unit i was skipped as newer by the first call and its source is now newer
\* than its target
MadeNewer(i) ==
    /\ n_first[i].status = "SKIPPED_TARGETPATH_NEWER"
    /\ GetMtime(fs, sources[i].filepath) > GetMtime(fs, n_first[i].targetpath)

ReadyOnceNewer ==
    (SecondReturned /\ overwritemode = "OVERWRITE_IF_OLDER") =>
        \A i \in 1..Len(work_units) : MadeNewer(i) => work_units[i].status = "READY"

\* C19: two calls of prepare_work_units with the same arguments and the same
\* files return the same sequence of (source, targetpath, status); what the
\* first call claimed is never a collision in the second; and a unit the first
\* call skipped as newer is READY in the second once its source is newer than
\* its target.
C19_PassesIndependent == SamePlan /\ NoCollisionAcrossPasses /\ ReadyOnceNewer

C19_Witness ==
    /\ SecondReturned
    /\ overwritemode = "OVERWRITE_IF_OLDER"
    /\ Len(work_units) = 2
    /\ MadeNewer(1)
    /\ work_units[1].status = "READY"
    /\ work_units[2].status = "SKIPPED_NAME_COLLISION"
(***************************************************************************)
(* The units prepare_work_units returns, checked under Spec.                *)
(***************************************************************************)
PlannedStatuses ==
    {"READY", "SKIPPED_NAME_COLLISION", "SKIPPED_TARGETPATH_EXISTS",
     "SKIPPED_TARGETPATH_NEWER", "SKIPPED_TARGETPATH_EQ_SOURCEPATH",
     "SKIPPED_GENERATE_TARGETPATH"}

\* C20: when prepare_work_units has returned, every unit's status is READY or
\* one of the five SKIPPED values, and every unit whose status is not
\* SKIPPED_GENERATE_TARGETPATH has a targetpath that is not None.
C20_ReturnedUnitsPlanned ==
    pc = "done" =>
        \A i \in 1..Len(work_units) :
            /\ work_units[i].status \in PlannedStatuses
            /\ work_units[i].status # "SKIPPED_GENERATE_TARGETPATH"
                    => work_units[i].targetpath # None

C20_Witness ==
    /\ pc = "done"
    /\ Len(work_units) = 3
    /\ work_units[1].status = "READY"
    /\ work_units[2].status = "SKIPPED_NAME_COLLISION"
    /\ work_units[3].status = "SKIPPED_TARGETPATH_EQ_SOURCEPATH"
    /\ \A i \in 1..3 : work_units[i].targetpath # None
(***************************************************************************)
(* The current directory across get_audiofile_paths_from_playlist, checked *)
(* under SpecCwd.                                                          *)
(***************************************************************************)
Exited == p_pc \in {"done", "raised"}

\* The statements of the function give what the function as a whole gives.
StepsGiveOutcome ==
    (Exited /\ w_access = "ok") =>
        p_result = get_audiofile_paths_from_playlist(p_filename, p_lines, w_start)

\* C21: on every exit of get_audiofile_paths_from_playlist, by returning the
\* paths or by raising (UnsupportedFileError, or a failure to open the file
\* or to change into the playlist's directory), the current directory is the
\* one of the time of the call.
C21_CwdRestored == Exited => p_cwd = w_start

\* The function has returned the paths of a playlist of another directory.
C21_Witness ==
    /\ p_pc = "done"
    /\ w_start = InvokeDir
    /\ p_cwd = InvokeDir
    /\ PlaylistDir(p_filename) = <<"/", "p">>
    /\ Len(p_result.paths) = 1

\* The function has raised after the change of directory was refused.
C21_WitnessRaised == p_pc = "raised" /\ w_exc = "OSError" /\ p_cwd = w_start
(***************************************************************************)
(* clean_path applied to its own result, checked under SpecClean.          *)
(***************************************************************************)
\* C22: clean_path is idempotent: cleaning the result of clean_path again
\* gives that result.
C22_CleanPathIdempotent == c_pc = "done" => clean_path(c_result) = c_result
====
